---- MODULE Spec2Model ----
(***************************************************************************)
(* A model of the ANI decoder of ani-to-xcursor (crates/ani/src/de).       *)
(*                                                                         *)
(* Bytes are the integers 0..255, identifiers are 4-byte sequences of      *)
(* ASCII codes, sizes are 4-byte little-endian fields.  The Byte Cursor    *)
(* (parser.rs) and the record decoders (mod.rs) are operators computed as  *)
(* the code computes them; the two pipelines (from_bytes_strict and        *)
(* from_bytes) are state machines with one action per pipeline step.       *)
(***************************************************************************)
EXTENDS Integers, Sequences, FiniteSets, TLC

VARIABLES
    data,      \* the input byte buffer handed to both decode calls
    gen,       \* how the input buffer was generated (ghost, never read by the decoder)
    strict,    \* state of the Ani::from_bytes_strict call on data
    lenient,   \* state of the Ani::from_bytes call on data
    cur,       \* Parser.data of a stand-alone Byte Cursor (cursor specification)
    op,        \* the last Byte Cursor operation applied to cur and its outcome
    file,      \* state of an Ani::open call and of the file at its path (open specification)
    handles,   \* the worker threads of Build::run, each with its own decode call (workers specification)
    run        \* state of a Build::run call from the spawning of its workers on (build specification)

vars == <<data, gen, strict, lenient, cur, op, file, handles, run>>

(***************************************************************************)
(* Bounds of the model.                                                    *)
(***************************************************************************)
MaxFrames == 1
MaxCursorLen == 4

(***************************************************************************)
(* Program constants.                                                      *)
(***************************************************************************)
IDENTIFIER_SIZE == 4
U32_SIZE == 4
HEADER_SIZE == 36
HALF == 65536

(***************************************************************************)
(* Identifiers (parser.rs: type Identifier = [u8; 4]) as ASCII codes.      *)
(***************************************************************************)
RIFF == <<82, 73, 70, 70>>
ACON == <<65, 67, 79, 78>>
LIST == <<76, 73, 83, 84>>
INFO == <<73, 78, 70, 79>>
INFO_LOWER == <<105, 110, 102, 111>>
ANIH == <<97, 110, 105, 104>>
RATE == <<114, 97, 116, 101>>
SEQ == <<115, 101, 113, 32>>
FRAM == <<102, 114, 97, 109>>
ICON == <<105, 99, 111, 110>>
INAM == <<73, 78, 65, 77>>
IART == <<73, 65, 82, 84>>

(***************************************************************************)
(* Slices.                                                                 *)
(***************************************************************************)
Take(s, n) == SubSeq(s, 1, n)
Drop(s, n) == SubSeq(s, n + 1, Len(s))

(***************************************************************************)
(* Result<T, DecodeError>, Option<T> and the DecodeError variants.         *)
(***************************************************************************)
Ok(v) == [type |-> "Ok", val |-> v]
Err(e) == [type |-> "Err", err |-> e]
Panic(m) == [type |-> "Panic", msg |-> m]
Pending == [type |-> "Pending"]
None == [some |-> FALSE]
Some(v) == [some |-> TRUE, val |-> v]

NotEnoughBytes(n) == [kind |-> "NotEnoughBytes", needed |-> n]
UnexpectedIdentifier(e, a) == [kind |-> "UnexpectedIdentifier", expected |-> e, actual |-> a]
UnknownIdentifier(a) == [kind |-> "UnknownIdentifier", actual |-> a]
SizeMismatch(e, a) == [kind |-> "SizeMismatch", expected |-> e, actual |-> a]
InvalidHeaderSize(a) == [kind |-> "InvalidHeaderSize", actual |-> a]
InvalidAlignmentU32 == [kind |-> "InvalidAlignmentU32"]
MissingChunk(e) == [kind |-> "MissingChunk", expected |-> e]

\* the variants that enum DecodeError declares
DecodeErrorKinds ==
    {"ReadFailure", "NotEnoughBytes", "UnexpectedIdentifier", "SizeMismatch",
     "InvalidHeaderSize", "InvalidAlignmentU32", "MissingChunk"}

(***************************************************************************)
(* u32 and usize values.  A value v is the pair <<hi, lo>> of its 16-bit   *)
(* halves, v = hi * 2^16 + lo, so that every u32 (and the sum of two) has  *)
(* a representation; N(n) is the pair of a small natural n.                *)
(***************************************************************************)
N(n) == <<n \div HALF, n % HALF>>
WLess(a, b) == a[1] < b[1] \/ (a[1] = b[1] /\ a[2] < b[2])
WLeq(a, b) == a = b \/ WLess(a, b)
WAdd(a, b) == <<a[1] + b[1] + ((a[2] + b[2]) \div HALF), (a[2] + b[2]) % HALF>>
\* a - b for a >= b
WSub(a, b) == IF a[2] >= b[2] THEN <<a[1] - b[1], a[2] - b[2]>>
              ELSE <<a[1] - b[1] - 1, a[2] + HALF - b[2]>>
\* the value as a natural, for a value below 2^16
Small(w) == w[2]

\* usize::saturating_sub
SaturatingSub(a, b) == IF WLeq(b, a) THEN WSub(a, b) ELSE N(0)

\* u32::from_le_bytes
FromLeBytes(b) == <<b[3] + 256 * b[4], b[1] + 256 * b[2]>>

(***************************************************************************)
(* The Byte Cursor.  A parser is the remaining slice p (Parser.data); an   *)
(* operation yields its Result and the parser after the call.              *)
(***************************************************************************)
Out(r, p) == [res |-> r, rest |-> p]

\* self.data.len()
Remaining(p) == N(Len(p))

\* read_bytes reporting the requested size instead of the shortfall
ReadBytes_NeededIsSize(p, size) ==
    IF WLeq(size, Remaining(p))
    THEN Out(Ok(Take(p, Small(size))), Drop(p, Small(size)))
    ELSE Out(Err(NotEnoughBytes(size)), p)

ReadBytes(p, size) ==
    IF WLeq(size, Remaining(p))
    THEN Out(Ok(Take(p, Small(size))), Drop(p, Small(size)))
    ELSE Out(Err(NotEnoughBytes(SaturatingSub(size, Remaining(p)))), p)

\* peek_bytes that advances like read_bytes
PeekBytes_Consuming(p, size) ==
    IF WLeq(size, Remaining(p))
    THEN Out(Ok(Take(p, Small(size))), Drop(p, Small(size)))
    ELSE Out(Err(NotEnoughBytes(SaturatingSub(size, Remaining(p)))), p)

PeekBytes(p, size) ==
    IF WLeq(size, Remaining(p))
    THEN Out(Ok(Take(p, Small(size))), p)
    ELSE Out(Err(NotEnoughBytes(SaturatingSub(size, Remaining(p)))), p)

\* read::<T>() for a T of size bytes; the value is the raw bytes of T
Read(p, size) ==
    IF size <= Len(p)
    THEN Out(Ok(Take(p, size)), Drop(p, size))
    ELSE Out(Err(NotEnoughBytes(SaturatingSub(N(size), Remaining(p)))), p)

\* expect_identifier that consumes the identifier before comparing it
ExpectIdentifier_Advancing(p, expected) ==
    IF IDENTIFIER_SIZE > Len(p)
    THEN Out(Err(NotEnoughBytes(SaturatingSub(N(IDENTIFIER_SIZE), Remaining(p)))), p)
    ELSE IF Take(p, IDENTIFIER_SIZE) # expected
         THEN Out(Err(UnexpectedIdentifier(expected, Take(p, IDENTIFIER_SIZE))),
                  Drop(p, IDENTIFIER_SIZE))
         ELSE Out(Ok(<<>>), Drop(p, IDENTIFIER_SIZE))

ExpectIdentifier(p, expected) ==
    IF IDENTIFIER_SIZE > Len(p)
    THEN Out(Err(NotEnoughBytes(SaturatingSub(N(IDENTIFIER_SIZE), Remaining(p)))), p)
    ELSE IF Take(p, IDENTIFIER_SIZE) # expected
         THEN Out(Err(UnexpectedIdentifier(expected, Take(p, IDENTIFIER_SIZE))), p)
         ELSE Out(Ok(<<>>), Drop(p, IDENTIFIER_SIZE))

\* read_size that returns the value without advancing
ReadSize_NotAdvancing(p) ==
    IF U32_SIZE <= Len(p)
    THEN Out(Ok(FromLeBytes(Take(p, U32_SIZE))), p)
    ELSE Out(Err(NotEnoughBytes(SaturatingSub(N(U32_SIZE), Remaining(p)))), p)

ReadSize(p) ==
    IF U32_SIZE <= Len(p)
    THEN Out(Ok(FromLeBytes(Take(p, U32_SIZE))), Drop(p, U32_SIZE))
    ELSE Out(Err(NotEnoughBytes(SaturatingSub(N(U32_SIZE), Remaining(p)))), p)

PeekSize(p) ==
    IF U32_SIZE <= Len(p)
    THEN Out(Ok(FromLeBytes(Take(p, U32_SIZE))), p)
    ELSE Out(Err(NotEnoughBytes(SaturatingSub(N(U32_SIZE), Remaining(p)))), p)

IsOk(o) == o.res.type = "Ok"

(***************************************************************************)
(* Conversions used by the record decoders.                                *)
(***************************************************************************)
\* String::from_utf8_lossy(..).to_string() as a sequence of code points.
\* An ASCII byte is its own code point; a byte that can never occur in
\* UTF-8 (0xF8..0xFF) is replaced by U+FFFD.  The inputs of the model hold
\* no other bytes in a text field.
FromUtf8Lossy(bytes) == [i \in 1..Len(bytes) |-> IF bytes[i] < 128 THEN bytes[i] ELSE 65533]

\* ptr::read_unaligned of a u32 field on a little-endian target
NativeU32(b) == FromLeBytes(b)

\* the record read with three unused fields instead of four
HeaderOf_ThreeUnused(b) ==
    [size      |-> NativeU32(SubSeq(b, 1, 4)),
     frames    |-> NativeU32(SubSeq(b, 5, 8)),
     steps     |-> NativeU32(SubSeq(b, 9, 12)),
     x         |-> NativeU32(SubSeq(b, 13, 16)),
     y         |-> NativeU32(SubSeq(b, 17, 20)),
     bit_count |-> NativeU32(SubSeq(b, 21, 24)),
     planes    |-> N(0),
     jif_rate  |-> NativeU32(SubSeq(b, 25, 28)),
     flags     |-> NativeU32(SubSeq(b, 29, 32))]

\* read::<Header>(): the #[repr(C)] record of nine 32-bit fields
HeaderOf(b) ==
    [size      |-> NativeU32(SubSeq(b, 1, 4)),
     frames    |-> NativeU32(SubSeq(b, 5, 8)),
     steps     |-> NativeU32(SubSeq(b, 9, 12)),
     x         |-> NativeU32(SubSeq(b, 13, 16)),
     y         |-> NativeU32(SubSeq(b, 17, 20)),
     bit_count |-> NativeU32(SubSeq(b, 21, 24)),
     planes    |-> NativeU32(SubSeq(b, 25, 28)),
     jif_rate  |-> NativeU32(SubSeq(b, 29, 32)),
     flags     |-> NativeU32(SubSeq(b, 33, 36))]

\* the bits of Flag and Flag::contains for a flag of one bit
Flag_ICON == 1
Flag_SEQUENCE == 2
contains(flags, other) == (flags[2] \div other) % 2 = 1

\* the accessors of Header
Header_size(h) == h.size
Header_frames(h) == h.frames
Header_steps(h) == h.steps
Header_jif_rate(h) == h.jif_rate
Header_flags(h) == h.flags

\* the table with every entry read as a big-endian value
U32Table_BigEndian(bytes) == [i \in 1..(Len(bytes) \div 4) |-> <<bytes[4 * i - 2] + 256 * bytes[4 * i - 3], bytes[4 * i] + 256 * bytes[4 * i - 1]>>]

\* bytes.chunks(4).map(u32::from_le_bytes).collect() for Len(bytes) % 4 = 0
U32Table(bytes) == [i \in 1..(Len(bytes) \div 4) |-> FromLeBytes(SubSeq(bytes, 4 * i - 3, 4 * i))]

\* ico::IconDir::read(..) followed by entry.decode() for every entry, the
\* external icon-container capability.  The directory header is reserved:u16
\* (must be 0), type:u16 (1 = ICO, 2 = CUR), count:u16, followed by count
\* 16-byte entries.  Ok(images) for a well-formed directory of no entries;
\* an Err (which the caller unwraps) when the header or the entry table is
\* malformed or truncated.  Icon payloads of the model are shorter than one
\* directory entry, so no payload holds image data to decode.
IcoRead(buffer) ==
    IF Len(buffer) < 6 THEN Err("UnexpectedEof")
    ELSE IF buffer[1] + 256 * buffer[2] # 0 THEN Err("InvalidData")
    ELSE IF buffer[3] + 256 * buffer[4] \notin {1, 2} THEN Err("InvalidData")
    ELSE IF Len(buffer) < 6 + 16 * (buffer[5] + 256 * buffer[6]) THEN Err("UnexpectedEof")
    ELSE Ok(<<>>)

(***************************************************************************)
(* Signature validation and record decoders (mod.rs).                      *)
(***************************************************************************)
\* In the definitions below, Try(o, K) is the ? operator (or and_then) on the
\* outcome o of a call: the rest of the function, K, runs on an Ok, anything
\* else ends the function with o.  Probe(o, K) is the match on the probe for
\* an optional chunk: Ok(()) runs K, the Err arms are ProbeErr.

\* the Err arms of the match on a probe: Err(UnexpectedIdentifier) is None,
\* any other error ends the function
ProbeErr(o) ==
    IF o.res.err.kind = "UnexpectedIdentifier" THEN Out(Ok(None), o.rest) ELSE o

\* Some(decode(..)?)
SomeOf(r) == IF IsOk(r) THEN Out(Ok(Some(r.res.val)), r.rest) ELSE r

\* validate_signature without the comparison of the size field to the data
validate_signature_NoSizeCheck(p) ==
    LET Try(o, K(_)) == IF IsOk(o) THEN K(o) ELSE o IN
    Try(ExpectIdentifier(p, RIFF), LAMBDA magic :
    Try(ReadSize(magic.rest), LAMBDA s :
    ExpectIdentifier(s.rest, ACON)))

\* validate_signature requiring the form type before it compares the size
validate_signature_FormFirst(p) ==
    LET Try(o, K(_)) == IF IsOk(o) THEN K(o) ELSE o IN
    Try(ExpectIdentifier(p, RIFF), LAMBDA magic :
    Try(ReadSize(magic.rest), LAMBDA s :
    Try(ExpectIdentifier(s.rest, ACON), LAMBDA form :
    IF WLess(Remaining(s.rest), s.res.val)
    THEN Out(Err(SizeMismatch(s.res.val, Remaining(s.rest))), s.rest)
    ELSE form)))

validate_signature(p) ==
    LET Try(o, K(_)) == IF IsOk(o) THEN K(o) ELSE o IN
    Try(ExpectIdentifier(p, RIFF), LAMBDA magic :
    Try(ReadSize(magic.rest), LAMBDA s :
    IF WLess(Remaining(s.rest), s.res.val)
    THEN Out(Err(SizeMismatch(s.res.val, Remaining(s.rest))), s.rest)
    ELSE ExpectIdentifier(s.rest, ACON)))

\* one optional length-prefixed text field of the INFO payload
InfoField(p, id) ==
    LET Probe(o, K(_)) == IF IsOk(o) THEN K(o) ELSE ProbeErr(o)
        Try(o, K(_)) == IF IsOk(o) THEN K(o) ELSE o IN
    Probe(ExpectIdentifier(p, id), LAMBDA probe :
    Try(ReadSize(probe.rest), LAMBDA s :
    Try(ReadBytes(s.rest, s.res.val), LAMBDA bytes :
    Out(Ok(Some(FromUtf8Lossy(bytes.res.val))), bytes.rest))))

parse_info_chunk(p) ==
    LET Try(o, K(_)) == IF IsOk(o) THEN K(o) ELSE o IN
    Try(InfoField(p, INAM), LAMBDA title :
    Try(InfoField(title.rest, IART), LAMBDA author :
    Out(Ok([title |-> title.res.val, author |-> author.res.val]), author.rest)))

\* parse_anih_chunk without the test of the size field
parse_anih_chunk_AnySize(p) ==
    LET Try(o, K(_)) == IF IsOk(o) THEN K(o) ELSE o IN
    Try(ReadSize(p), LAMBDA size :
    Try(Read(size.rest, HEADER_SIZE), LAMBDA header :
    Out(Ok(HeaderOf(header.res.val)), header.rest)))

parse_anih_chunk(p) ==
    LET Try(o, K(_)) == IF IsOk(o) THEN K(o) ELSE o IN
    Try(ReadSize(p), LAMBDA size :
    IF size.res.val # N(HEADER_SIZE)
    THEN Out(Err(InvalidHeaderSize(size.res.val)), size.rest)
    ELSE Try(Read(size.rest, HEADER_SIZE), LAMBDA header :
         Out(Ok(HeaderOf(header.res.val)), header.rest)))

\* parse_rate_chunk reading the payload before it tests the alignment
parse_rate_chunk_ReadFirst(p) ==
    LET Try(o, K(_)) == IF IsOk(o) THEN K(o) ELSE o IN
    Try(ReadSize(p), LAMBDA s :
    Try(ReadBytes(s.rest, s.res.val), LAMBDA bytes :
    IF s.res.val[2] % U32_SIZE # 0
    THEN Out(Err(InvalidAlignmentU32), bytes.rest)
    ELSE Out(Ok(U32Table(bytes.res.val)), bytes.rest)))

parse_rate_chunk(p) ==
    LET Try(o, K(_)) == IF IsOk(o) THEN K(o) ELSE o IN
    Try(ReadSize(p), LAMBDA s :
    IF s.res.val[2] % U32_SIZE # 0
    THEN Out(Err(InvalidAlignmentU32), s.rest)
    ELSE Try(ReadBytes(s.rest, s.res.val), LAMBDA bytes :
         Out(Ok(U32Table(bytes.res.val)), bytes.rest)))

parse_seq_chunk(p) ==
    LET Try(o, K(_)) == IF IsOk(o) THEN K(o) ELSE o IN
    Try(ReadSize(p), LAMBDA s :
    IF s.res.val[2] % U32_SIZE # 0
    THEN Out(Err(InvalidAlignmentU32), s.rest)
    ELSE Try(ReadBytes(s.rest, s.res.val), LAMBDA bytes :
         Out(Ok(U32Table(bytes.res.val)), bytes.rest)))

\* IconDir::read(..).expect("todo") and the decode of its entries: the
\* images, or the panic of the expect
ExpectImages(images, p) ==
    IF images.type = "Ok" THEN Out(Ok(images.val), p) ELSE Out(Panic("todo"), p)

\* the for loop of parse_fram_chunk from the iteration that follows the
\* frames pushed so far
RECURSIVE FramLoop(_, _, _)
FramLoop(p, frames_count, frames) ==
    LET Try(o, K(_)) == IF IsOk(o) THEN K(o) ELSE o IN
    IF N(Len(frames)) = frames_count THEN Out(Ok(frames), p) ELSE
    Try(ExpectIdentifier(p, ICON), LAMBDA id :
    Try(ReadSize(id.rest), LAMBDA s :
    Try(ReadBytes(s.rest, s.res.val), LAMBDA buffer :
    Try(ExpectImages(IcoRead(buffer.res.val), buffer.rest), LAMBDA images :
    FramLoop(images.rest, frames_count, Append(frames, images.res.val))))))

\* parse_fram_chunk that decodes no frame
parse_fram_chunk_NoFrames(p, frames_count) == FramLoop(p, N(0), <<>>)

parse_fram_chunk(p, frames_count) == FramLoop(p, frames_count, <<>>)

(***************************************************************************)
(* The strict pipeline, Ani::from_bytes_strict: one operator per step,     *)
(* each from the parser before the step to its Result and the parser       *)
(* after it.                                                               *)
(***************************************************************************)
\* the metadata probe rolling back when the nested identifier is not INFO
StrictMetadataStep_Rollback(p) ==
    LET Probe(o, K(_)) == IF IsOk(o) THEN K(o) ELSE ProbeErr(o)
        Try(o, K(_)) == IF IsOk(o) THEN K(o) ELSE o IN
    Probe(ExpectIdentifier(p, LIST), LAMBDA probe :
    Try(ReadSize(probe.rest), LAMBDA s :
    IF IsOk(ExpectIdentifier(s.rest, INFO))
    THEN SomeOf(parse_info_chunk(ExpectIdentifier(s.rest, INFO).rest))
    ELSE Out(Ok(None), p)))

StrictMetadataStep(p) ==
    LET Probe(o, K(_)) == IF IsOk(o) THEN K(o) ELSE ProbeErr(o)
        Try(o, K(_)) == IF IsOk(o) THEN K(o) ELSE o IN
    Probe(ExpectIdentifier(p, LIST), LAMBDA probe :
    Try(ReadSize(probe.rest), LAMBDA s :
    Try(ExpectIdentifier(s.rest, INFO), LAMBDA nested :
    SomeOf(parse_info_chunk(nested.rest)))))

\* the header probe reporting a mismatch as a missing chunk
StrictHeaderStep_Missing(p) ==
    LET Try(o, K(_)) == IF IsOk(o) THEN K(o) ELSE o IN
    IF ExpectIdentifier(p, ANIH).res.type = "Err"
       /\ ExpectIdentifier(p, ANIH).res.err.kind = "UnexpectedIdentifier"
    THEN Out(Err(MissingChunk(ANIH)), p)
    ELSE Try(ExpectIdentifier(p, ANIH), LAMBDA probe : parse_anih_chunk(probe.rest))

StrictHeaderStep(p) ==
    LET Try(o, K(_)) == IF IsOk(o) THEN K(o) ELSE o IN
    Try(ExpectIdentifier(p, ANIH), LAMBDA probe : parse_anih_chunk(probe.rest))

StrictRatesStep(p) ==
    LET Probe(o, K(_)) == IF IsOk(o) THEN K(o) ELSE ProbeErr(o) IN
    Probe(ExpectIdentifier(p, RATE), LAMBDA probe :
    SomeOf(parse_rate_chunk(probe.rest)))

\* the sequence probe treating the chunk as mandatory
StrictSequenceStep_Mandatory(p) ==
    LET Try(o, K(_)) == IF IsOk(o) THEN K(o) ELSE o IN
    Try(ExpectIdentifier(p, SEQ), LAMBDA probe :
    SomeOf(parse_seq_chunk(probe.rest)))

StrictSequenceStep(p) ==
    LET Probe(o, K(_)) == IF IsOk(o) THEN K(o) ELSE ProbeErr(o) IN
    Probe(ExpectIdentifier(p, SEQ), LAMBDA probe :
    SomeOf(parse_seq_chunk(probe.rest)))

StrictFramesStep(p, frames_count) ==
    LET Try(o, K(_)) == IF IsOk(o) THEN K(o) ELSE o IN
    Try(ExpectIdentifier(p, LIST), LAMBDA list :
    Try(ReadSize(list.rest), LAMBDA s :
    Try(ExpectIdentifier(s.rest, FRAM), LAMBDA nested :
    parse_fram_chunk(nested.rest, frames_count))))

(***************************************************************************)
(* The lenient pipeline, Ani::from_bytes.                                  *)
(***************************************************************************)
\* the Chunk pushed by one iteration of the scan loop
Chunk(kind, bytes) == [kind |-> kind, data |-> bytes]

\* u32 subtraction and addition of the scan.  With overflow checks (the
\* debug profile) an overflow panics, without them (the release profile) it
\* wraps modulo 2^32.
SubU32(a, b, checks) ==
    IF WLeq(b, a) THEN Ok(WSub(a, b))
    ELSE IF checks THEN Panic("attempt to subtract with overflow")
    ELSE Ok(WSub(<<a[1] + HALF, a[2]>>, b))

AddU32(a, b, checks) ==
    IF WAdd(a, b)[1] < HALF THEN Ok(WAdd(a, b))
    ELSE IF checks THEN Panic("attempt to add with overflow")
    ELSE Ok(<<WAdd(a, b)[1] % HALF, WAdd(a, b)[2]>>)

\* the arm's (kind, size) with the parser p after the arm, or the panic of
\* the arm's arithmetic
Classified(kind, size, p) ==
    IF size.type = "Ok" THEN Out(Ok(<<kind, size.val>>), p) ELSE Out(size, p)

\* the match of one scan iteration taking the declared size of a LIST as
\* the length of what follows its nested identifier
ScanClassify_WholeSize(p, checks) ==
    LET Try(o, K(_)) == IF IsOk(o) THEN K(o) ELSE o IN
    Try(Read(p, IDENTIFIER_SIZE), LAMBDA identifier :
    IF identifier.res.val = LIST THEN
        Try(ReadSize(identifier.rest), LAMBDA s :
        Try(Read(s.rest, IDENTIFIER_SIZE), LAMBDA next :
        IF next.res.val \in {INFO_LOWER, FRAM}
        THEN Classified(IF next.res.val = FRAM THEN "Frames" ELSE "Metadata",
                        Ok(s.res.val), next.rest)
        ELSE Out(Err(UnknownIdentifier(next.res.val)), next.rest)))
    ELSE IF identifier.res.val \in {ANIH, RATE, SEQ} THEN
        Try(PeekSize(identifier.rest), LAMBDA peek :
        Classified(CASE identifier.res.val = ANIH -> "Header"
                     [] identifier.res.val = RATE -> "Rate"
                     [] OTHER -> "Sequence",
                   AddU32(N(4), peek.res.val, checks), peek.rest))
    ELSE Out(Err(UnknownIdentifier(identifier.res.val)), identifier.rest))

\* the (kind, size) computed by the match of one scan iteration, as
\* Out(Ok(<<kind, size>>), parser) or the error or panic that ends the call
ScanClassify(p, checks) ==
    LET Try(o, K(_)) == IF IsOk(o) THEN K(o) ELSE o IN
    Try(Read(p, IDENTIFIER_SIZE), LAMBDA identifier :
    IF identifier.res.val = LIST THEN
        Try(ReadSize(identifier.rest), LAMBDA s :
        Try(Read(s.rest, IDENTIFIER_SIZE), LAMBDA next :
        IF next.res.val \in {INFO_LOWER, FRAM}
        THEN Classified(IF next.res.val = FRAM THEN "Frames" ELSE "Metadata",
                        SubU32(s.res.val, N(4), checks), next.rest)
        ELSE Out(Err(UnknownIdentifier(next.res.val)), next.rest)))
    ELSE IF identifier.res.val \in {ANIH, RATE, SEQ} THEN
        Try(PeekSize(identifier.rest), LAMBDA peek :
        Classified(CASE identifier.res.val = ANIH -> "Header"
                     [] identifier.res.val = RATE -> "Rate"
                     [] OTHER -> "Sequence",
                   AddU32(N(4), peek.res.val, checks), peek.rest))
    ELSE Out(Err(UnknownIdentifier(identifier.res.val)), identifier.rest))

\* one iteration of the while loop without the test for a single last byte
ScanIteration_NoPadding(p, chunks, checks) ==
    LET Try(o, K(_)) == IF IsOk(o) THEN K(o) ELSE o IN
    Try(ScanClassify(p, checks), LAMBDA class :
    Try(ReadBytes(class.rest, class.res.val[2]), LAMBDA bytes :
    Out(Ok(Append(chunks, Chunk(class.res.val[1], bytes.res.val))), bytes.rest)))

\* one iteration that looks at a single last byte without reading it
ScanIteration_PeekPadding(p, chunks, checks) ==
    LET Try(o, K(_)) == IF IsOk(o) THEN K(o) ELSE o IN
    IF Len(p) = 1 THEN Out(Ok(chunks), PeekBytes(p, N(1)).rest) ELSE
    Try(ScanClassify(p, checks), LAMBDA class :
    Try(ReadBytes(class.rest, class.res.val[2]), LAMBDA bytes :
    Out(Ok(Append(chunks, Chunk(class.res.val[1], bytes.res.val))), bytes.rest)))

\* one iteration of the while loop: Out(Ok(chunks after the iteration), parser)
ScanIteration(p, chunks, checks) ==
    LET Try(o, K(_)) == IF IsOk(o) THEN K(o) ELSE o IN
    IF Len(p) = 1 THEN Out(Ok(chunks), ReadBytes(p, N(1)).rest) ELSE
    Try(ScanClassify(p, checks), LAMBDA class :
    Try(ReadBytes(class.rest, class.res.val[2]), LAMBDA bytes :
    Out(Ok(Append(chunks, Chunk(class.res.val[1], bytes.res.val))), bytes.rest)))

\* chunks.iter().find(|c| c.kind == kind): the index of the first match, 0 if none
RECURSIVE FindFrom(_, _, _)
FindFrom(chunks, kind, i) ==
    IF i > Len(chunks) THEN 0
    ELSE IF chunks[i].kind = kind THEN i
    ELSE FindFrom(chunks, kind, i + 1)

\* the index of the last match instead of the first
Find_Last(chunks, kind) ==
    IF \E i \in 1..Len(chunks) : chunks[i].kind = kind
    THEN CHOOSE i \in 1..Len(chunks) :
            chunks[i].kind = kind /\ \A j \in (i + 1)..Len(chunks) : chunks[j].kind # kind
    ELSE 0

Find(chunks, kind) == FindFrom(chunks, kind, 1)

LenientMetadataStep(chunks) ==
    IF Find(chunks, "Metadata") = 0 THEN Out(Ok(None), <<>>)
    ELSE SomeOf(parse_info_chunk(chunks[Find(chunks, "Metadata")].data))

LenientHeaderStep(chunks) ==
    IF Find(chunks, "Header") = 0 THEN Out(Err(MissingChunk(ANIH)), <<>>)
    ELSE parse_anih_chunk(chunks[Find(chunks, "Header")].data)

LenientRatesStep(chunks) ==
    IF Find(chunks, "Rate") = 0 THEN Out(Ok(None), <<>>)
    ELSE SomeOf(parse_rate_chunk(chunks[Find(chunks, "Rate")].data))

LenientSequenceStep(chunks) ==
    IF Find(chunks, "Sequence") = 0 THEN Out(Ok(None), <<>>)
    ELSE SomeOf(parse_seq_chunk(chunks[Find(chunks, "Sequence")].data))

\* the frames chunk treated as optional
LenientFramesStep_Optional(chunks, frames_count) ==
    IF Find(chunks, "Frames") = 0 THEN Out(Ok(<<>>), <<>>)
    ELSE parse_fram_chunk(chunks[Find(chunks, "Frames")].data, frames_count)

LenientFramesStep(chunks, frames_count) ==
    IF Find(chunks, "Frames") = 0 THEN Out(Err(MissingChunk(FRAM)), <<>>)
    ELSE parse_fram_chunk(chunks[Find(chunks, "Frames")].data, frames_count)

(***************************************************************************)
(* Input buffers.  An input is generated from a description g: the         *)
(* top-level chunks in physical order, the frame count, how the RIFF size  *)
(* field is set, one optional corruption, and the number of bytes kept.    *)
(***************************************************************************)
\* u32::to_le_bytes of a value given as its pair of halves, and of a small natural
ToLeBytes(w) == <<w[2] % 256, w[2] \div 256, w[1] % 256, w[1] \div 256>>
U32LE(n) == ToLeBytes(N(n))

RECURSIVE Concat(_)
Concat(ss) == IF ss = <<>> THEN <<>> ELSE Head(ss) \o Concat(Tail(ss))

Zeros(n) == [i \in 1..n |-> 0]

TitleBytes == <<72, 105>>
AuthorBytes == <<255>>
RateBytes == U32LE(258)
SeqBytes == U32LE(0)
ValidIcon == <<0, 0, 2, 0, 0, 0>>
BadIcon == <<0, 0>>
JUNK == <<74, 85, 78, 75>>

\* the metadata chunks with a field left out
SparseMutations == {"notitle", "noauthor", "nofields"}

\* Every chunk is built as the sequence of its fields: identifiers, size
\* fields and payloads, the units the decoder reads.
SubChunk(id, payload) == <<id, U32LE(Len(payload)), payload>>

MetaBody == SubChunk(INAM, TitleBytes) \o SubChunk(IART, AuthorBytes)
MetaChunk(tag) == <<LIST, U32LE(4 + Len(Concat(MetaBody))), tag>> \o MetaBody

\* a metadata chunk that holds one of the two fields, or neither
SparseBody(g) ==
    CASE g.mut = "notitle" -> SubChunk(IART, AuthorBytes)
      [] g.mut = "noauthor" -> SubChunk(INAM, TitleBytes)
      [] OTHER -> <<>>
SparseMetaChunk(g, tag) == <<LIST, U32LE(4 + Len(Concat(SparseBody(g)))), tag>> \o SparseBody(g)

\* the pad byte that follows a chunk of odd length (the RIFF convention the
\* scan refers to), present in the buffers generated with padding
PadByte(g, chunk) ==
    IF g.mut = "pad" /\ Len(Concat(chunk)) % 2 = 1 THEN <<<<0>>>> ELSE <<>>

\* the frame count the header declares; the frames chunk holds g.nframes icons
DeclaredFrames(g) ==
    CASE g.mut \in {"framesmore", "iconjunk", "iconmix", "iconshort"} -> g.nframes + 1
      [] g.mut = "frameszero" -> 0
      [] OTHER -> g.nframes

\* the 36-byte record; the four unused fields hold 11, 12, 13 and 14
HeaderRecord(g) ==
    U32LE(HEADER_SIZE) \o U32LE(DeclaredFrames(g)) \o U32LE(1)
        \o U32LE(11) \o U32LE(12) \o U32LE(13) \o U32LE(14) \o U32LE(6)
        \o U32LE(IF \E i \in 1..Len(g.order) : g.order[i] = "S" THEN 3 ELSE 1)

\* the anih chunk; with "anihsize" and "anihbig" the size field alone is
\* wrong, with "anihshort" and "anihlong" the chunk holds as many bytes as
\* it declares
AnihChunk(g) ==
    <<ANIH,
      U32LE(CASE g.mut \in {"anihsize", "anihshort"} -> 32
              [] g.mut = "anihlong" -> 40
              [] g.mut = "anihbig" -> 1000
              [] OTHER -> HEADER_SIZE),
      CASE g.mut = "anihshort" -> Take(HeaderRecord(g), 32)
        [] g.mut = "anihlong" -> HeaderRecord(g) \o Zeros(4)
        [] OTHER -> HeaderRecord(g)>>

\* the rate chunk; with "ratealign" it declares 5 bytes and holds 4, with
\* "rateodd" it declares and holds 5
RateChunk(g) ==
    <<RATE,
      CASE g.mut \in {"ratealign", "rateodd"} -> U32LE(5)
        [] g.mut = "ratehuge" -> ToLeBytes(<<HALF - 1, HALF - 4>>)
        [] g.mut = "tableempty" -> U32LE(0)
        [] g.mut = "tabletwo" -> U32LE(8)
        [] OTHER -> U32LE(Len(RateBytes)),
      CASE g.mut = "rateodd" -> RateBytes \o <<7>>
        [] g.mut = "tableempty" -> <<>>
        [] g.mut = "tabletwo" -> RateBytes \o <<4, 3, 2, 1>>
        [] OTHER -> RateBytes>>

SeqChunk == SubChunk(SEQ, SeqBytes)

\* the 'seq ' chunk; with "tableempty" it holds no entry, with "tabletwo" two
SeqChunkOf(g) ==
    CASE g.mut = "tableempty" -> SubChunk(SEQ, <<>>)
      [] g.mut = "tabletwo" -> SubChunk(SEQ, SeqBytes \o <<1, 0, 1, 0>>)
      [] OTHER -> SeqChunk

\* a 'seq ' chunk that declares and holds 6 bytes
OddSeqChunk == SubChunk(SEQ, SeqBytes \o <<7, 7>>)

\* a metadata chunk whose INAM field declares more bytes than the chunk holds
BadTitleChunk(tag) ==
    <<LIST, U32LE(4 + Len(Concat(MetaBody))), tag, INAM, U32LE(200), TitleBytes>>
        \o SubChunk(IART, AuthorBytes)

IconChunk(g) == SubChunk(ICON, IF g.mut \in {"badicon", "iconmix"} THEN BadIcon ELSE ValidIcon)

\* the sub-chunks of the frames LIST: g.nframes icon sub-chunks, followed
\* with "iconjunk" and "iconmix" by a sub-chunk with another identifier and
\* with "iconshort" by an icon sub-chunk that declares 6 bytes and holds 2
FramBody(g) ==
    Concat([i \in 1..g.nframes |-> IconChunk(g)])
        \o CASE g.mut \in {"iconjunk", "iconmix"} -> SubChunk(JUNK, <<>>)
              [] g.mut = "iconshort" -> <<ICON, U32LE(6), BadIcon>>
              [] OTHER -> <<>>

FramChunk(g) ==
    <<LIST, U32LE(CASE g.mut = "listsize" -> 3 [] OTHER -> 4 + Len(Concat(FramBody(g)))),
      IF g.mut = "listjunk" THEN JUNK ELSE FRAM>>
        \o FramBody(g)

\* second chunks of a kind, each unlike the first: a metadata chunk with
\* another title, a header with another jiffy rate, tables with other
\* entries; "R3" is a rate chunk of 5 bytes and "F2" a frames LIST that
\* holds no icon
AltMetaChunk ==
    <<LIST, U32LE(4 + Len(Concat(MetaBody))), INFO_LOWER>>
        \o SubChunk(INAM, <<89, 111>>) \o SubChunk(IART, AuthorBytes)
AltHeaderRecord(g) == SubSeq(HeaderRecord(g), 1, 28) \o U32LE(9) \o SubSeq(HeaderRecord(g), 33, 36)

ChunkFields(g, k) ==
    CASE k = "M" -> CASE g.mut = "infosize" -> BadTitleChunk(INFO)
                      [] g.mut \in SparseMutations -> SparseMetaChunk(g, INFO)
                      [] OTHER -> MetaChunk(INFO)
      [] k = "m" -> CASE g.mut = "infosize" -> BadTitleChunk(INFO_LOWER)
                      [] g.mut \in SparseMutations -> SparseMetaChunk(g, INFO_LOWER)
                      [] OTHER -> MetaChunk(INFO_LOWER) \o PadByte(g, MetaChunk(INFO_LOWER))
      [] k = "A" -> AnihChunk(g)
      [] k = "R" -> RateChunk(g)
      [] k = "S" -> IF g.mut = "seqodd" THEN OddSeqChunk ELSE SeqChunkOf(g)
      [] k = "F" -> FramChunk(g)
      [] k = "m2" -> AltMetaChunk
      [] k = "A2" -> <<ANIH, U32LE(HEADER_SIZE), AltHeaderRecord(g)>>
      [] k = "R2" -> SubChunk(RATE, U32LE(772))
      [] k = "R3" -> SubChunk(RATE, RateBytes \o <<7>>)
      [] k = "S2" -> SubChunk(SEQ, U32LE(5))
      [] k = "F2" -> <<LIST, U32LE(4), FRAM>>
      [] k = "mX" -> BadTitleChunk(INFO_LOWER)
      [] k = "AX" -> <<ANIH, U32LE(HEADER_SIZE + 4), HeaderRecord(g) \o Zeros(4)>>
      [] k = "SX" -> OddSeqChunk
      [] k = "S9" -> <<SEQ, U32LE(8), SeqBytes>>
      [] OTHER -> SubChunk(JUNK, <<>>)

BodyFields(g) == Concat([i \in 1..Len(g.order) |-> ChunkFields(g, g.order[i])])

\* the whole file as its sequence of fields
Fields(g) ==
    <<IF g.mut \in {"magic", "magicsize"} THEN <<82, 73, 70, 88>> ELSE RIFF,
      U32LE(CASE g.riff = "min" -> 4
              [] g.mut \in {"riffsize", "magicsize", "sizeform"} -> 4 + Len(Concat(BodyFields(g))) + 1
              [] OTHER -> 4 + Len(Concat(BodyFields(g)))),
      IF g.mut \in {"form", "sizeform"} THEN <<65, 67, 79, 88>> ELSE ACON>>
        \o BodyFields(g)

\* bytes that follow the declared RIFF payload
TrailMutations == {"trail1", "trailff", "trail2", "trailjunk"}
Trailing(g) ==
    CASE g.mut = "trail1" -> <<0>>
      [] g.mut = "trailff" -> <<255>>
      [] g.mut = "trail2" -> <<0, 0>>
      [] g.mut = "trailjunk" -> JUNK
      [] OTHER -> <<>>

Full(g) == Concat(Fields(g)) \o Trailing(g)

Bytes(g) == Take(Full(g), g.cut)

\* "M" is the metadata LIST tagged INFO, "m" the one tagged info
Kinds == {"M", "m", "A", "R", "S", "F"}
GrammarRank(k) ==
    CASE k \in {"M", "m"} -> 1 [] k = "A" -> 2 [] k = "R" -> 3 [] k = "S" -> 4 [] OTHER -> 5

\* every arrangement of at most one chunk of each kind
Orders ==
    UNION {{o \in [1..n -> Kinds] :
              \A i, j \in 1..n : i # j => GrammarRank(o[i]) # GrammarRank(o[j])} : n \in 0..5}

InGrammarOrder(o) == \A i, j \in 1..Len(o) : i < j => GrammarRank(o[i]) < GrammarRank(o[j])
HasKind(o, k) == \E i \in 1..Len(o) : o[i] = k

\* the arrangements with the mandatory chunks and every chunk in its place
OrderedLayouts == {o \in Orders : InGrammarOrder(o) /\ HasKind(o, "A") /\ HasKind(o, "F")}

\* the arrangements the wire grammar allows
GrammarOrders == {o \in OrderedLayouts : ~HasKind(o, "m")}

Mutations == {"badicon", "listsize", "anihsize", "ratealign", "ratehuge", "junk",
              "magic", "riffsize", "form", "magicsize", "sizeform",
              "framesmore", "frameszero", "listjunk", "iconjunk", "iconmix", "iconshort",
              "infosize", "rateodd", "seqodd", "anihshort", "anihlong", "anihbig"}

Gen(order, nframes, riff, mut, cut) ==
    [order |-> order, nframes |-> nframes, riff |-> riff, mut |-> mut, cut |-> cut]

Whole(order, nframes, riff, mut) ==
    Gen(order, nframes, riff, mut, Len(Full(Gen(order, nframes, riff, mut, 0))))

\* whole buffers with the chunks in any arrangement
Layouts == {Whole(o, n, "exact", "none") : o \in Orders, n \in 0..MaxFrames}

\* every prefix of every buffer with its chunks in grammar order
Prefixes ==
    UNION {{Gen(o, n, r, "none", c) : c \in 0..Len(Full(Gen(o, n, r, "none", 0)))} :
           o \in OrderedLayouts, n \in 0..MaxFrames, r \in {"exact", "min"}}

\* whole buffers, in any arrangement, whose chunk of odd length (the
\* metadata) is followed by its pad byte
Padded ==
    {Whole(o, n, "exact", "pad") : o \in {x \in Orders : HasKind(x, "m")}, n \in 0..MaxFrames}

\* buffers in grammar order with one corruption
Corrupted ==
    {Whole(IF m = "junk" THEN <<"A", "J", "F">> ELSE o, n, "exact", m) :
        o \in {<<"A", "R", "F">>, <<"M", "A", "R", "S", "F">>, <<"m", "A", "R", "S", "F">>},
        n \in 1..MaxFrames, m \in Mutations}

\* buffers that lack the header or the frames chunk, with one chunk that
\* scans but does not decode, or with none
Incomplete ==
    {Whole(o, n, "exact", m) :
        o \in {<<"m", "R", "S", "F">>, <<"m", "A", "R", "S">>, <<"m", "R", "S">>, <<"A", "R">>},
        n \in 1..MaxFrames,
        m \in {"none", "infosize", "ratealign", "rateodd", "seqodd", "anihshort", "anihlong"}}

\* buffers in grammar order whose metadata chunk lacks a field
Sparse ==
    {Whole(o, n, "exact", m) :
        o \in {<<"M", "A", "F">>, <<"m", "A", "F">>, <<"M", "A", "R", "S", "F">>,
               <<"m", "A", "R", "S", "F">>},
        n \in 1..MaxFrames, m \in SparseMutations}

\* buffers in grammar order whose rate and 'seq ' tables hold no entry, or two
Tables ==
    {Whole(o, n, "exact", m) :
        o \in {<<"A", "R", "S", "F">>, <<"A", "S", "F">>, <<"A", "R", "F">>},
        n \in 1..MaxFrames, m \in {"tableempty", "tabletwo"}}

\* buffers in grammar order followed by bytes beyond the declared RIFF size
Trailed ==
    {Whole(o, n, "exact", m) : o \in OrderedLayouts, n \in 0..MaxFrames, m \in TrailMutations}

\* whole buffers that hold two chunks of one kind
DuplicateOrders ==
    {<<"m", "m2", "A", "F">>, <<"m2", "m", "A", "F">>,
     <<"A", "A2", "F">>, <<"A2", "A", "F">>, <<"A", "F", "A2">>,
     <<"A", "R", "R2", "F">>, <<"A", "R2", "R", "F">>, <<"R2", "A", "F", "R">>,
     <<"A", "R", "R3", "F">>, <<"A", "R3", "R", "F">>,
     <<"A", "S", "S2", "F">>, <<"A", "S2", "S", "F">>,
     <<"A", "F", "F2">>, <<"A", "F2", "F">>, <<"F2", "A", "F">>}
Duplicates == {Whole(o, n, "exact", "none") : o \in DuplicateOrders, n \in 1..MaxFrames}

\* buffers in grammar order in which every kind is absent, sound, or
\* scanned but not decodable ("mX", "AX", "R3", "SX", "F2"), followed or
\* not by a chunk that stops the scan: an unknown chunk "J", or a 'seq '
\* chunk "S9" that declares 8 bytes and holds 4; and the same buffers
\* without the last, in reverse order
Opt(kinds) == {<<>>} \cup {<<k>> : k \in kinds}
FaultyBodies ==
    {m \o a \o r \o q \o f :
        m \in Opt({"m", "mX"}), a \in Opt({"A", "AX"}), r \in Opt({"R", "R3"}),
        q \in Opt({"S", "SX"}), f \in Opt({"F", "F2"})}
FaultyOrders ==
    {b \o t : b \in FaultyBodies, t \in Opt({"J", "S9"})}
        \cup {[i \in 1..Len(b) |-> b[Len(b) + 1 - i]] : b \in FaultyBodies}

Inputs ==
    {Whole(o, 1, "exact", "none") : o \in FaultyOrders} \cup Duplicates \cup Layouts \cup Padded \cup Prefixes \cup Corrupted \cup Incomplete \cup Sparse \cup Tables
        \cup Trailed

ReadFailure == [kind |-> "ReadFailure"]

(***************************************************************************)
(* The decode calls as state machines.  Both calls decode the same input   *)
(* buffer; they share nothing else and their steps interleave freely.      *)
(***************************************************************************)
Aggregate(st, frames) ==
    [metadata |-> st.metadata, header |-> st.header, rates |-> st.rates,
     sequence |-> st.sequence, frames |-> frames]

StrictStart(bytes) ==
    [pc |-> "signature", parser |-> bytes, metadata |-> None, header |-> None,
     rates |-> None, sequence |-> None, result |-> Pending]

LenientStart(bytes) ==
    [pc |-> "signature", parser |-> bytes, chunks |-> <<>>, metadata |-> None,
     header |-> None, rates |-> None, sequence |-> None, result |-> Pending]

\* the ? operator (or a panic): the call ends with the step's outcome
Return(st, o) == [st EXCEPT !.pc = "done", !.parser = o.rest, !.result = o.res]

NoOp == [name |-> "none", arg |-> 0, before |-> <<>>, res |-> Pending]

\* no Build::run call
NoRun == [pc |-> "none", cursors |-> <<>>, strict |-> FALSE, checks |-> FALSE,
          joined |-> 0, error_count |-> 0, result |-> Pending]

\* no Ani::open call
NoFile == [readable |-> FALSE, strict |-> FALSE, pc |-> "none", result |-> Pending]

Init ==
    /\ gen \in Inputs
    /\ data = Bytes(gen)
    /\ strict = StrictStart(data)
    /\ lenient = LenientStart(data)
    /\ cur = <<>>
    /\ op = NoOp
    /\ file = NoFile
    /\ handles = <<>>
    /\ run = NoRun

\* the condition of the while loop of the scan
\* the decoders starting after one iteration of the scan
AfterScan_OneIteration(p) == "metadata"

AfterScan(p) == IF Len(p) > 0 THEN "scan" ELSE "metadata"

\* the strict call in state st after its next step; every step works on
\* st alone, the call's parser and locals
StrictAdvance(st) ==
    CASE st.pc = "signature" ->
           LET o == validate_signature(st.parser) IN
           IF IsOk(o) THEN [st EXCEPT !.pc = "metadata", !.parser = o.rest]
           ELSE Return(st, o)
      [] st.pc = "metadata" ->
           LET o == StrictMetadataStep(st.parser) IN
           IF IsOk(o)
           THEN [st EXCEPT !.pc = "header", !.parser = o.rest, !.metadata = o.res.val]
           ELSE Return(st, o)
      [] st.pc = "header" ->
           LET o == StrictHeaderStep(st.parser) IN
           IF IsOk(o)
           THEN [st EXCEPT !.pc = "rates", !.parser = o.rest, !.header = Some(o.res.val)]
           ELSE Return(st, o)
      [] st.pc = "rates" ->
           LET o == StrictRatesStep(st.parser) IN
           IF IsOk(o)
           THEN [st EXCEPT !.pc = "sequence", !.parser = o.rest, !.rates = o.res.val]
           ELSE Return(st, o)
      [] st.pc = "sequence" ->
           LET o == StrictSequenceStep(st.parser) IN
           IF IsOk(o)
           THEN [st EXCEPT !.pc = "frames", !.parser = o.rest, !.sequence = o.res.val]
           ELSE Return(st, o)
      [] st.pc = "frames" ->
           LET o == StrictFramesStep(st.parser, st.header.val.frames) IN
           IF IsOk(o)
           THEN Return(st, Out(Ok(Aggregate(st, o.res.val)), o.rest))
           ELSE Return(st, o)
      [] OTHER -> st

\* the lenient call in state st after its next step, in a build with
\* (checks) or without overflow checks
LenientAdvance(st, checks) ==
    CASE st.pc = "signature" ->
           LET o == validate_signature(st.parser) IN
           IF IsOk(o) THEN [st EXCEPT !.pc = AfterScan(o.rest), !.parser = o.rest]
           ELSE Return(st, o)
      [] st.pc = "scan" ->
           LET o == ScanIteration(st.parser, st.chunks, checks) IN
           IF IsOk(o)
           THEN [st EXCEPT !.pc = AfterScan(o.rest), !.parser = o.rest, !.chunks = o.res.val]
           ELSE Return(st, o)
      [] st.pc = "metadata" ->
           LET o == LenientMetadataStep(st.chunks) IN
           IF IsOk(o) THEN [st EXCEPT !.pc = "header", !.metadata = o.res.val]
           ELSE [st EXCEPT !.pc = "done", !.result = o.res]
      [] st.pc = "header" ->
           LET o == LenientHeaderStep(st.chunks) IN
           IF IsOk(o) THEN [st EXCEPT !.pc = "rates", !.header = Some(o.res.val)]
           ELSE [st EXCEPT !.pc = "done", !.result = o.res]
      [] st.pc = "rates" ->
           LET o == LenientRatesStep(st.chunks) IN
           IF IsOk(o) THEN [st EXCEPT !.pc = "sequence", !.rates = o.res.val]
           ELSE [st EXCEPT !.pc = "done", !.result = o.res]
      [] st.pc = "sequence" ->
           LET o == LenientSequenceStep(st.chunks) IN
           IF IsOk(o) THEN [st EXCEPT !.pc = "frames", !.sequence = o.res.val]
           ELSE [st EXCEPT !.pc = "done", !.result = o.res]
      [] st.pc = "frames" ->
           LET o == LenientFramesStep(st.chunks, st.header.val.frames) IN
           [st EXCEPT !.pc = "done",
                      !.result = IF IsOk(o) THEN Ok(Aggregate(st, o.res.val)) ELSE o.res]
      [] OTHER -> st

StrictSignature ==
    /\ strict.pc = "signature"
    /\ strict' = StrictAdvance(strict)
    /\ UNCHANGED <<data, gen, lenient, cur, op, file, handles, run>>

StrictMetadata ==
    /\ strict.pc = "metadata"
    /\ strict' = StrictAdvance(strict)
    /\ UNCHANGED <<data, gen, lenient, cur, op, file, handles, run>>

StrictHeader ==
    /\ strict.pc = "header"
    /\ strict' = StrictAdvance(strict)
    /\ UNCHANGED <<data, gen, lenient, cur, op, file, handles, run>>

StrictRates ==
    /\ strict.pc = "rates"
    /\ strict' = StrictAdvance(strict)
    /\ UNCHANGED <<data, gen, lenient, cur, op, file, handles, run>>

StrictSequence ==
    /\ strict.pc = "sequence"
    /\ strict' = StrictAdvance(strict)
    /\ UNCHANGED <<data, gen, lenient, cur, op, file, handles, run>>

StrictFrames ==
    /\ strict.pc = "frames"
    /\ strict' = StrictAdvance(strict)
    /\ UNCHANGED <<data, gen, lenient, cur, op, file, handles, run>>

LenientSignature ==
    /\ lenient.pc = "signature"
    /\ lenient' = LenientAdvance(lenient, FALSE)
    /\ UNCHANGED <<data, gen, strict, cur, op, file, handles, run>>

LenientScan ==
    /\ lenient.pc = "scan"
    /\ \E checks \in BOOLEAN : lenient' = LenientAdvance(lenient, checks)
    /\ UNCHANGED <<data, gen, strict, cur, op, file, handles, run>>

LenientMetadata ==
    /\ lenient.pc = "metadata"
    /\ lenient' = LenientAdvance(lenient, FALSE)
    /\ UNCHANGED <<data, gen, strict, cur, op, file, handles, run>>

LenientHeader ==
    /\ lenient.pc = "header"
    /\ lenient' = LenientAdvance(lenient, FALSE)
    /\ UNCHANGED <<data, gen, strict, cur, op, file, handles, run>>

LenientRates ==
    /\ lenient.pc = "rates"
    /\ lenient' = LenientAdvance(lenient, FALSE)
    /\ UNCHANGED <<data, gen, strict, cur, op, file, handles, run>>

LenientSequence ==
    /\ lenient.pc = "sequence"
    /\ lenient' = LenientAdvance(lenient, FALSE)
    /\ UNCHANGED <<data, gen, strict, cur, op, file, handles, run>>

LenientFrames ==
    /\ lenient.pc = "frames"
    /\ lenient' = LenientAdvance(lenient, FALSE)
    /\ UNCHANGED <<data, gen, strict, cur, op, file, handles, run>>

Next ==
    \/ StrictSignature
    \/ StrictMetadata
    \/ StrictHeader
    \/ StrictRates
    \/ StrictSequence
    \/ StrictFrames
    \/ LenientSignature
    \/ LenientScan
    \/ LenientMetadata
    \/ LenientHeader
    \/ LenientRates
    \/ LenientSequence
    \/ LenientFrames

Spec == Init /\ [][Next]_vars

(***************************************************************************)
(* The Byte Cursor on its own: any sequence of cursor operations applied   *)
(* to a parser over any short buffer.  op records the last call.           *)
(***************************************************************************)
CursorBytes == {0, 65, 255}
CursorBuffers == UNION {[1..n -> CursorBytes] : n \in 0..MaxCursorLen}
CursorIdentifiers == [1..IDENTIFIER_SIZE -> {65, 255}]
\* requested lengths: every length up to one past the longest buffer, and usize values beyond
CursorSizes == {N(n) : n \in 0..(MaxCursorLen + 1)} \cup {<<1, 2>>, <<HALF - 1, HALF - 1>>}

Call(name, arg, o) ==
    /\ cur' = o.rest
    /\ op' = [name |-> name, arg |-> arg, before |-> cur, res |-> o.res]
    /\ UNCHANGED <<data, gen, strict, lenient, file, handles, run>>

CursorReadBytes == \E size \in CursorSizes : Call("read_bytes", size, ReadBytes(cur, size))
CursorPeekBytes == \E size \in CursorSizes : Call("peek_bytes", size, PeekBytes(cur, size))
CursorRead == \E size \in {IDENTIFIER_SIZE, HEADER_SIZE} : Call("read", size, Read(cur, size))
CursorExpectIdentifier ==
    \E expected \in CursorIdentifiers :
        Call("expect_identifier", expected, ExpectIdentifier(cur, expected))
CursorReadSize == Call("read_size", 0, ReadSize(cur))
CursorPeekSize == Call("peek_size", 0, PeekSize(cur))

InitCursor ==
    /\ cur \in CursorBuffers
    /\ op = NoOp
    /\ gen = Gen(<<>>, 0, "exact", "none", 0)
    /\ data = <<>>
    /\ strict = StrictStart(<<>>)
    /\ lenient = LenientStart(<<>>)
    /\ file = NoFile
    /\ handles = <<>>
    /\ run = NoRun

NextCursor ==
    \/ CursorReadBytes
    \/ CursorPeekBytes
    \/ CursorRead
    \/ CursorExpectIdentifier
    \/ CursorReadSize
    \/ CursorPeekSize

SpecCursor == InitCursor /\ [][NextCursor]_vars

(***************************************************************************)
(* Ani::open(path, strict): the file at path holds the bytes `data` and is *)
(* readable or not; the call reads it and then runs one of the two decode  *)
(* calls, whose steps are the actions above.                               *)
(***************************************************************************)
\* a decode call that has not been made
NotCalled(st) == [st EXCEPT !.pc = "idle"]

\* buffers for the open call: whole buffers in any arrangement, corrupted
\* ones, and ones with sparse metadata
OpenInputs == Layouts \cup Corrupted \cup Sparse

InitOpen ==
    /\ gen \in OpenInputs
    /\ data = Bytes(gen)
    /\ file \in {[readable |-> r, strict |-> m, pc |-> "read", result |-> Pending] :
                     r \in BOOLEAN, m \in BOOLEAN}
    /\ strict = NotCalled(StrictStart(<<>>))
    /\ lenient = NotCalled(LenientStart(<<>>))
    /\ cur = <<>>
    /\ op = NoOp
    /\ handles = <<>>
    /\ run = NoRun

\* open calling the other decode function
open_Swapped(f, bytes, st, le) ==
    IF ~f.readable
    THEN [file |-> [f EXCEPT !.pc = "done", !.result = Err(ReadFailure)],
          strict |-> st, lenient |-> le]
    ELSE IF ~f.strict
         THEN [file |-> [f EXCEPT !.pc = "decode"], strict |-> StrictStart(bytes), lenient |-> le]
         ELSE [file |-> [f EXCEPT !.pc = "decode"], strict |-> st, lenient |-> LenientStart(bytes)]

\* fs::read(path).map_err(ReadFailure)?, then the call of the decode
\* function the flag selects
open(f, bytes, st, le) ==
    IF ~f.readable
    THEN [file |-> [f EXCEPT !.pc = "done", !.result = Err(ReadFailure)],
          strict |-> st, lenient |-> le]
    ELSE IF f.strict
         THEN [file |-> [f EXCEPT !.pc = "decode"], strict |-> StrictStart(bytes), lenient |-> le]
         ELSE [file |-> [f EXCEPT !.pc = "decode"], strict |-> st, lenient |-> LenientStart(bytes)]

OpenRead ==
    /\ file.pc = "read"
    /\ file' = open(file, data, strict, lenient).file
    /\ strict' = open(file, data, strict, lenient).strict
    /\ lenient' = open(file, data, strict, lenient).lenient
    /\ UNCHANGED <<data, gen, cur, op, handles, run>>

\* the decode call open made
Called == IF strict.pc # "idle" THEN strict ELSE lenient

\* open returns what the decode call returned
OpenReturn ==
    /\ file.pc = "decode"
    /\ Called.pc = "done"
    /\ file' = [file EXCEPT !.pc = "done", !.result = Called.result]
    /\ UNCHANGED <<data, gen, strict, lenient, cur, op, handles, run>>

NextOpen ==
    \/ OpenRead
    \/ OpenReturn
    \/ StrictSignature
    \/ StrictMetadata
    \/ StrictHeader
    \/ StrictRates
    \/ StrictSequence
    \/ StrictFrames
    \/ LenientSignature
    \/ LenientScan
    \/ LenientMetadata
    \/ LenientHeader
    \/ LenientRates
    \/ LenientSequence
    \/ LenientFrames

SpecOpen == InitOpen /\ [][NextOpen]_vars

(***************************************************************************)
(* Properties of the Byte Cursor (checked under SpecCursor).               *)
(***************************************************************************)

\* C4: expect_identifier(expected) on a parser with at least 4 bytes left
\* consumes exactly those 4 bytes when they equal expected; when they differ
\* it returns UnexpectedIdentifier{expected, actual = the 4 bytes found} and
\* leaves the parser as it was, so a following probe sees the same bytes.
C4_ExpectIdentifier ==
    (op.name = "expect_identifier" /\ Len(op.before) >= 4) =>
        IF Take(op.before, 4) = op.arg
        THEN /\ op.res = Ok(<<>>)
             /\ cur = Drop(op.before, 4)
             /\ Len(cur) = Len(op.before) - 4
        ELSE /\ op.res = Err(UnexpectedIdentifier(op.arg, Take(op.before, 4)))
             /\ cur = op.before

C4_Witness ==
    /\ op.name = "expect_identifier"
    /\ op.res.type = "Err"
    /\ op.res.err.kind = "UnexpectedIdentifier"
    /\ op.res.err.actual = <<65, 255, 65, 65>>
    /\ op.res.err.expected = <<65, 255, 65, 255>>
    /\ cur = op.before

\* C5: read_bytes(n) with n <= bytes_remaining returns the next n bytes in
\* order and reduces bytes_remaining by exactly n; with n > bytes_remaining it
\* fails with NotEnoughBytes{needed = n - bytes_remaining} and leaves the
\* parser unchanged.
C5_ReadBytes ==
    op.name = "read_bytes" =>
        IF WLeq(op.arg, N(Len(op.before)))
        THEN /\ op.res.type = "Ok"
             /\ Len(op.res.val) = op.arg[2]
             /\ \A i \in 1..Len(op.res.val) : op.res.val[i] = op.before[i]
             /\ Len(cur) = Len(op.before) - op.arg[2]
             /\ op.res.val \o cur = op.before
        ELSE /\ op.res = Err(NotEnoughBytes(WSub(op.arg, N(Len(op.before)))))
             /\ cur = op.before

C5_Witness ==
    /\ op.name = "read_bytes"
    /\ op.res = Err(NotEnoughBytes(N(2)))
    /\ Len(cur) = 3

\* C6: peek_bytes(n) and peek_size() never move the parser and return what
\* read_bytes(n) and read_size() return from the same position; read_size
\* returns b0 + 2^8 b1 + 2^16 b2 + 2^24 b3 of the next four bytes, here as the
\* pair of 16-bit halves <<b2 + 2^8 b3, b0 + 2^8 b1>>, and consumes them.
C6_Peek ==
    /\ op.name = "peek_bytes" =>
         /\ cur = op.before
         /\ op.res = ReadBytes(op.before, op.arg).res
         /\ op.res = IF WLeq(op.arg, N(Len(op.before)))
                     THEN Ok(SubSeq(op.before, 1, op.arg[2]))
                     ELSE Err(NotEnoughBytes(WSub(op.arg, N(Len(op.before)))))
    /\ op.name = "peek_size" =>
         /\ cur = op.before
         /\ op.res = ReadSize(op.before).res
    /\ op.name \in {"peek_size", "read_size"} =>
         op.res = IF Len(op.before) >= 4
                  THEN Ok(<<op.before[3] + 256 * op.before[4], op.before[1] + 256 * op.before[2]>>)
                  ELSE Err(NotEnoughBytes(N(4 - Len(op.before))))
    /\ op.name = "read_size" =>
         cur = IF Len(op.before) >= 4 THEN Drop(op.before, 4) ELSE op.before

C6_Witness ==
    /\ op.name = "peek_size"
    /\ op.before = <<65, 0, 255, 0>>
    /\ op.res = Ok(<<255, 65>>)
    /\ cur = op.before

(***************************************************************************)
(* Properties of the two pipelines (checked under Spec).                   *)
(***************************************************************************)
IsWhole == gen.cut = Len(Full(gen))

\* the input satisfies the strict chunk ordering grammar of the wire format
Grammatical ==
    /\ gen.order \in GrammarOrders
    /\ gen.mut = "none"
    /\ gen.riff = "exact"
    /\ IsWhole

\* C1: for a buffer that satisfies the strict chunk ordering grammar, strict
\* and lenient decoding both succeed and return equal aggregates.
C1_StrictLenientEqual ==
    (Grammatical /\ strict.pc = "done" /\ lenient.pc = "done") =>
        /\ strict.result.type = "Ok"
        /\ lenient.result = strict.result

\* C2: a decode call, strict or lenient, ends with a complete aggregate or
\* with one DecodeError value and in no other way: it never panics.
C2_NoPanic ==
    /\ strict.pc = "done" => strict.result.type \in {"Ok", "Err"}
    /\ lenient.pc = "done" => lenient.result.type \in {"Ok", "Err"}

\* the whole buffer is one that strict decoding accepts / lenient decoding accepts
StrictValid == gen.order \in OrderedLayouts /\ ~HasKind(gen.order, "m") /\ gen.mut = "none"
LenientValid == gen.order \in OrderedLayouts /\ ~HasKind(gen.order, "M") /\ gen.mut = "none"

\* the value of the RIFF size field of the whole buffer
DeclaredSize == FromLeBytes(Fields(gen)[2])[2]

\* the units the lenient scan reads: the fields of the buffer, except that
\* it reads what follows the nested identifier of a LIST in one piece
LenientChunkUnits(f) ==
    IF f[1] = LIST THEN <<f[1], f[2], f[3], Concat(SubSeq(f, 4, Len(f)))>> ELSE f

LenientUnits(g) ==
    SubSeq(Fields(g), 1, 3)
        \o Concat([i \in 1..Len(g.order) |-> LenientChunkUnits(ChunkFields(g, g.order[i]))])

\* the bytes missing to complete the unit that holds offset cut, for a
\* buffer made of the given units
RECURSIVE Shortfall(_, _)
Shortfall(units, cut) ==
    IF Len(Head(units)) > cut THEN Len(Head(units)) - cut
    ELSE Shortfall(Tail(units), cut - Len(Head(units)))

PrefixSignatureError ==
    IF gen.cut < 8 THEN Err(NotEnoughBytes(N(4 - (gen.cut % 4))))
    ELSE Err(SizeMismatch(N(DeclaredSize), N(gen.cut - 8)))

RiffSizeField == <<data[7] + 256 * data[8], data[5] + 256 * data[6]>>

SignatureVerdict(st, passed) ==
    IF Len(data) >= 4 /\ Take(data, 4) # RIFF
    THEN st.pc = "done" /\ st.result = Err(UnexpectedIdentifier(RIFF, Take(data, 4)))
    ELSE IF Len(data) >= 8 /\ WLess(N(Len(data) - 8), RiffSizeField)
    THEN st.pc = "done" /\ st.result = Err(SizeMismatch(RiffSizeField, N(Len(data) - 8)))
    ELSE IF Len(data) >= 12 /\ SubSeq(data, 9, 12) # ACON
    THEN st.pc = "done" /\ st.result = Err(UnexpectedIdentifier(ACON, SubSeq(data, 9, 12)))
    ELSE IF Len(data) >= 12
    THEN /\ Len(data) - Len(st.parser) >= 12
         /\ passed => st.parser = Drop(data, 12)
    ELSE st.pc = "done" /\ st.result = Err(NotEnoughBytes(N(4 - (Len(data) % 4))))

C7_SignatureOrder ==
    /\ strict.pc # "signature" => SignatureVerdict(strict, strict.pc = "metadata")
    /\ lenient.pc # "signature" =>
           SignatureVerdict(lenient, \/ lenient.pc = "scan" /\ lenient.chunks = <<>>
                                     \/ lenient.pc = "metadata" /\ Len(data) = 12)

C7_Witness ==
    /\ data = RIFF \o <<4, 0, 0, 0>> \o ACON
    /\ strict.pc = "metadata"
    /\ strict.parser = <<>>
    /\ lenient.pc = "metadata"

\* C8: in strict mode, when the 4 bytes at the position of a mandatory chunk
\* (anih; LIST and the nested fram of the frames chunk) are not the required
\* identifier, the step returns UnexpectedIdentifier{expected = the required
\* identifier, actual = the bytes found} and the call ends there.
C8_MandatoryMismatch ==
    [][/\ (strict.pc = "header" /\ strict' # strict /\ Len(strict.parser) >= 4
           /\ Take(strict.parser, 4) # ANIH) =>
              /\ strict'.pc = "done"
              /\ strict'.result = Err(UnexpectedIdentifier(ANIH, Take(strict.parser, 4)))
              /\ strict'.header = None
       /\ (strict.pc = "frames" /\ strict' # strict /\ Len(strict.parser) >= 4
           /\ Take(strict.parser, 4) # LIST) =>
              /\ strict'.pc = "done"
              /\ strict'.result = Err(UnexpectedIdentifier(LIST, Take(strict.parser, 4)))
       /\ (strict.pc = "frames" /\ strict' # strict /\ Len(strict.parser) >= 12
           /\ Take(strict.parser, 4) = LIST /\ SubSeq(strict.parser, 9, 12) # FRAM) =>
              /\ strict'.pc = "done"
              /\ strict'.result = Err(UnexpectedIdentifier(FRAM, SubSeq(strict.parser, 9, 12)))
      ]_vars

C8_Witness ==
    /\ strict.pc = "done"
    /\ strict.result = Err(UnexpectedIdentifier(ANIH, RATE))
    /\ strict.header = None
    /\ strict.rates = None

\* the values the optional chunks of the generated buffers decode to
MetaValue == [title |-> Some(<<72, 105>>), author |-> Some(<<65533>>)]
RateValue == <<N(258)>>
SeqValue == <<N(0)>>

\* C9: in strict mode each optional chunk (LIST/INFO, rate, 'seq ') may be
\* absent, for every subset of them: the decode succeeds, a field of the
\* aggregate is absent exactly when its chunk is absent, and a probe that
\* fails on an identifier mismatch leaves the parser where it was.
C9_OptionalChunks ==
    [][/\ (Grammatical /\ strict'.pc = "done") =>
              /\ strict'.result.type = "Ok"
              /\ strict'.result.val.metadata =
                     IF HasKind(gen.order, "M") THEN Some(MetaValue) ELSE None
              /\ strict'.result.val.rates =
                     IF HasKind(gen.order, "R") THEN Some(RateValue) ELSE None
              /\ strict'.result.val.sequence =
                     IF HasKind(gen.order, "S") THEN Some(SeqValue) ELSE None
       /\ \A step \in {<<"metadata", LIST, "header">>, <<"rates", RATE, "sequence">>,
                       <<"sequence", SEQ, "frames">>} :
              (strict.pc = step[1] /\ strict' # strict /\ Len(strict.parser) >= 4
               /\ Take(strict.parser, 4) # step[2]) =>
                  /\ strict'.pc = step[3]
                  /\ strict'.parser = strict.parser
                  /\ strict'[step[1]] = None
      ]_vars

C9_Witness ==
    /\ Grammatical
    /\ gen.order = <<"A", "S", "F">>
    /\ gen.nframes > 0
    /\ strict.pc = "done"
    /\ strict.result.type = "Ok"
    /\ strict.result.val.rates = None
    /\ strict.result.val.sequence = Some(SeqValue)

\* the chunks of the buffer are those of a grammatical buffer with two of
\* them exchanged
TwoChunksSwapped ==
    /\ gen.mut = "none" /\ gen.riff = "exact" /\ IsWhole
    /\ \E g \in GrammarOrders : \E i, j \in 1..Len(g) :
          /\ i < j
          /\ gen.order = [k \in 1..Len(g) |-> IF k = i THEN g[j] ELSE IF k = j THEN g[i] ELSE g[k]]

\* C10: strict decoding rejects, with UnexpectedIdentifier, every buffer in
\* which two chunks of the grammar order are swapped.
C10_SwappedRejected ==
    (TwoChunksSwapped /\ strict.pc = "done") =>
        /\ strict.result.type = "Err"
        /\ strict.result.err.kind = "UnexpectedIdentifier"

\* C11: whenever a decode succeeds, in strict mode and in lenient mode, the
\* number of frames of the returned aggregate equals the frame count of the
\* returned header (a frame count of 0 gives an empty frame list).
C11_FrameCount ==
    /\ (strict.pc = "done" /\ strict.result.type = "Ok") =>
           N(Len(strict.result.val.frames)) = strict.result.val.header.val.frames
    /\ (lenient.pc = "done" /\ lenient.result.type = "Ok") =>
           N(Len(lenient.result.val.frames)) = lenient.result.val.header.val.frames

C11_Witness ==
    /\ gen.nframes = 1 /\ gen.mut = "none"
    /\ strict.pc = "done" /\ strict.result.type = "Ok"
    /\ lenient.pc = "done" /\ lenient.result.type = "Ok"
    /\ strict.result.val.header.val.frames = N(1)
    /\ Len(strict.result.val.frames) = 1
    /\ Len(lenient.result.val.frames) = 1

\* the buffer is whole and holds uncorrupted chunks, at most one of each
\* kind, a chunk of odd length with or without its pad byte
OneOfEachKind ==
    gen.order \in Orders /\ gen.mut \in {"none", "pad"} /\ gen.riff = "exact" /\ IsWhole

\* the aggregate of the chunks of the buffer, whatever their arrangement
AggregateOfKinds ==
    [metadata |-> IF HasKind(gen.order, "m") THEN Some(MetaValue) ELSE None,
     header   |-> Some(HeaderOf(HeaderRecord(gen))),
     rates    |-> IF HasKind(gen.order, "R") THEN Some(RateValue) ELSE None,
     sequence |-> IF HasKind(gen.order, "S") THEN Some(SeqValue) ELSE None,
     frames   |-> [i \in 1..gen.nframes |-> <<>>]]

\* C12: lenient decoding does not depend on the physical order of the
\* top-level chunks: of the buffers with at most one chunk of each kind, in
\* every arrangement, whether lenient decoding accepts one depends only on
\* which chunks it holds, and the aggregate returned is the same for every
\* arrangement of the same chunks.
C12_OrderIndependent ==
    (OneOfEachKind /\ lenient.pc = "done") =>
        /\ lenient.result.type = "Ok" <=>
               (HasKind(gen.order, "A") /\ HasKind(gen.order, "F") /\ ~HasKind(gen.order, "M"))
        /\ lenient.result.type = "Ok" => lenient.result.val = AggregateOfKinds

LenientDecoding == lenient.pc \in {"metadata", "header", "rates", "sequence", "frames"}

\* C14 as stated: lenient decoding of a buffer whose scan completes but
\* which holds no anih chunk returns MissingChunk{expected = anih}, and of
\* one which holds an anih chunk but no LIST/fram chunk returns
\* MissingChunk{expected = fram}.
C14_MissingChunk ==
    [][(LenientDecoding /\ lenient'.pc = "done") =>
           /\ Find(lenient.chunks, "Header") = 0 =>
                  lenient'.result = Err(MissingChunk(ANIH))
           /\ (Find(lenient.chunks, "Header") # 0 /\ Find(lenient.chunks, "Frames") = 0) =>
                  lenient'.result = Err(MissingChunk(FRAM))
      ]_vars

\* C14 amended: after a scan that completes, a buffer with no anih chunk
\* whose metadata chunk (if any) decodes returns MissingChunk{expected =
\* anih}; a buffer with an anih chunk and no LIST/fram chunk whose metadata,
\* header, rate and sequence chunks decode returns MissingChunk{expected =
\* fram}; when one of those chunks does not decode, the call returns that
\* decoder's error, which is never MissingChunk.
C14_MissingChunkDecoded ==
    [][/\ (lenient.pc = "header" /\ lenient' # lenient
           /\ Find(lenient.chunks, "Header") = 0) =>
              lenient'.pc = "done" /\ lenient'.result = Err(MissingChunk(ANIH))
       /\ (lenient.pc = "frames" /\ lenient' # lenient
           /\ Find(lenient.chunks, "Frames") = 0) =>
              lenient'.pc = "done" /\ lenient'.result = Err(MissingChunk(FRAM))
       /\ (LenientDecoding /\ lenient'.pc = "done"
           /\ lenient'.result.type = "Err" /\ lenient'.result.err.kind = "MissingChunk") =>
              \/ lenient.pc = "header" /\ Find(lenient.chunks, "Header") = 0
              \/ lenient.pc = "frames" /\ Find(lenient.chunks, "Frames") = 0
       /\ (LenientDecoding /\ lenient'.pc = "done" /\ lenient.pc # "frames") =>
              lenient'.result.type = "Err"
      ]_vars

C14_Witness ==
    /\ gen.order = <<"m", "A", "R", "S">>
    /\ gen.mut = "none"
    /\ lenient.pc = "done"
    /\ Find(lenient.chunks, "Header") # 0
    /\ lenient.metadata = Some(MetaValue)
    /\ lenient.rates = Some(RateValue)
    /\ lenient.result = Err(MissingChunk(FRAM))

\* the size the anih chunk of the buffer declares
DeclaredAnih == FromLeBytes(AnihChunk(gen)[2])

\* C15 as stated: an anih chunk whose declared size is not 36 always makes
\* the decode fail with InvalidHeaderSize{actual = the declared size}, in
\* both pipelines and for every declared size.
C15_InvalidHeaderSize ==
    (gen.mut \in {"anihsize", "anihshort", "anihlong", "anihbig"}
     /\ gen.order = <<"A", "R", "F">> /\ IsWhole) =>
        /\ strict.pc = "done" => strict.result = Err(InvalidHeaderSize(DeclaredAnih))
        /\ lenient.pc = "done" => lenient.result = Err(InvalidHeaderSize(DeclaredAnih))

\* C15 amended: in strict mode an anih chunk at the header position whose
\* declared size is not 36 ends the call with InvalidHeaderSize{actual =
\* the declared size}, for every declared size and whatever follows the
\* size field; in lenient mode it does so when the scan has completed,
\* buffering the chunk with its size field, and the metadata has decoded.
C15_InvalidHeaderSizeReached ==
    [][/\ (strict.pc = "header" /\ strict' # strict /\ Len(strict.parser) >= 8
           /\ Take(strict.parser, 4) = ANIH
           /\ FromLeBytes(SubSeq(strict.parser, 5, 8)) # N(HEADER_SIZE)) =>
              /\ strict'.pc = "done"
              /\ strict'.result =
                     Err(InvalidHeaderSize(FromLeBytes(SubSeq(strict.parser, 5, 8))))
       /\ (lenient.pc = "header" /\ lenient' # lenient
           /\ Find(lenient.chunks, "Header") # 0
           /\ Len(lenient.chunks[Find(lenient.chunks, "Header")].data) >= 4
           /\ FromLeBytes(Take(lenient.chunks[Find(lenient.chunks, "Header")].data, 4))
                  # N(HEADER_SIZE)) =>
              /\ lenient'.pc = "done"
              /\ lenient'.result =
                     Err(InvalidHeaderSize(
                         FromLeBytes(Take(lenient.chunks[Find(lenient.chunks, "Header")].data, 4))))
      ]_vars

C15_Witness ==
    /\ gen.mut = "anihlong"
    /\ gen.order = <<"A", "R", "F">>
    /\ strict.pc = "done" /\ strict.result = Err(InvalidHeaderSize(N(40)))
    /\ lenient.pc = "done" /\ lenient.result = Err(InvalidHeaderSize(N(40)))

\* C16 as stated: a rate or 'seq ' chunk whose declared byte length is not a
\* multiple of 4 always makes the decode fail with InvalidAlignmentU32, in
\* both pipelines, including when fewer bytes than the declared length are
\* available.
C16_InvalidAlignment ==
    (gen.mut \in {"ratealign", "rateodd"} /\ gen.order \in {<<"A", "R", "F">>, <<"A", "R">>}
     /\ IsWhole) =>
        /\ strict.pc = "done" => strict.result = Err(InvalidAlignmentU32)
        /\ lenient.pc = "done" => lenient.result = Err(InvalidAlignmentU32)

\* the chunk of the given kind that the lenient scan buffered declares a
\* byte length that is not a multiple of 4
LenientMisaligned(kind) ==
    /\ Find(lenient.chunks, kind) # 0
    /\ Len(lenient.chunks[Find(lenient.chunks, kind)].data) >= 4
    /\ FromLeBytes(Take(lenient.chunks[Find(lenient.chunks, kind)].data, 4))[2] % 4 # 0

\* C16 amended: in strict mode a rate or 'seq ' chunk at its position whose
\* declared byte length is not a multiple of 4 ends the call with
\* InvalidAlignmentU32, also when fewer bytes than the declared length are
\* available; in lenient mode it does so when the scan has completed,
\* buffering the chunk with its size field, and the kinds decoded before it
\* have decoded.
C16_InvalidAlignmentReached ==
    [][/\ \A step \in {<<"rates", RATE>>, <<"sequence", SEQ>>} :
              (strict.pc = step[1] /\ strict' # strict /\ Len(strict.parser) >= 8
               /\ Take(strict.parser, 4) = step[2]
               /\ FromLeBytes(SubSeq(strict.parser, 5, 8))[2] % 4 # 0) =>
                  strict'.pc = "done" /\ strict'.result = Err(InvalidAlignmentU32)
       /\ \A step \in {<<"rates", "Rate">>, <<"sequence", "Sequence">>} :
              (lenient.pc = step[1] /\ lenient' # lenient /\ LenientMisaligned(step[2])) =>
                  lenient'.pc = "done" /\ lenient'.result = Err(InvalidAlignmentU32)
      ]_vars

C16_Witness ==
    /\ gen.mut = "rateodd"
    /\ gen.order = <<"A", "R", "F">>
    /\ strict.pc = "done" /\ strict.result = Err(InvalidAlignmentU32)
    /\ lenient.pc = "done" /\ lenient.result = Err(InvalidAlignmentU32)

\* the k-th little-endian 32-bit word of a byte string
WordAt(bytes, k) == FromLeBytes(SubSeq(bytes, 4 * k + 1, 4 * k + 4))

\* the accessors of header h return the words of the record rec when
\* `unused` 32-bit fields stand between step_count and jiffy_rate
HeaderLayout(h, rec, unused) ==
    /\ Header_size(h) = WordAt(rec, 0)
    /\ Header_frames(h) = WordAt(rec, 1)
    /\ Header_steps(h) = WordAt(rec, 2)
    /\ Header_jif_rate(h) = WordAt(rec, 3 + unused)
    /\ contains(Header_flags(h), Flag_ICON) <=> (WordAt(rec, 4 + unused)[2] % 2 = 1)
    /\ contains(Header_flags(h), Flag_SEQUENCE) <=> ((WordAt(rec, 4 + unused)[2] \div 2) % 2 = 1)

\* the Header decoder succeeded in this step: it consumed the size field
\* and 36 bytes, and the Header it returned has the layout with `unused`
\* fields
HeaderDecoded(unused) ==
    /\ (strict.pc = "header" /\ strict'.pc = "rates") =>
           /\ Len(strict'.parser) = Len(strict.parser) - 4 - 4 - 36
           /\ HeaderLayout(strict'.header.val, SubSeq(strict.parser, 9, 44), unused)
    /\ (lenient.pc = "header" /\ lenient'.pc = "rates") =>
           HeaderLayout(lenient'.header.val,
                        SubSeq(lenient.chunks[Find(lenient.chunks, "Header")].data, 5, 40), unused)

ExpectedMetadata ==
    [title  |-> IF gen.mut \in {"notitle", "nofields"} THEN None
                ELSE Some(FromUtf8Lossy(TitleBytes)),
     author |-> IF gen.mut \in {"noauthor", "nofields"} THEN None
                ELSE Some(FromUtf8Lossy(AuthorBytes))]

\* C18: the Metadata decoder accepts an INFO payload for each of the four
\* combinations of INAM present/absent and IART present/absent: it succeeds,
\* title is present exactly when INAM is present and author exactly when
\* IART is present, each holding the length-prefixed bytes that follow its
\* identifier; absence of either field is not an error.
C18_MetadataFields ==
    (gen.mut \in SparseMutations \cup {"none"} /\ IsWhole) =>
        /\ (gen.order = <<"M", "A", "F">> /\ strict.pc = "done") =>
               /\ strict.result.type = "Ok"
               /\ strict.result.val.metadata = Some(ExpectedMetadata)
        /\ (gen.order = <<"m", "A", "F">> /\ lenient.pc = "done") =>
               /\ lenient.result.type = "Ok"
               /\ lenient.result.val.metadata = Some(ExpectedMetadata)

\* the little-endian value of the bytes 4i-3 .. 4i of a payload
LeEntry(payload, i) ==
    <<payload[4 * i - 1] + 256 * payload[4 * i], payload[4 * i - 3] + 256 * payload[4 * i - 2]>>

\* `table` is the table of s / 4 entries of the chunk body `body` (its size
\* field, declaring s, and the bytes after it)
TableOf(table, body) ==
    /\ table.some
    /\ Len(table.val) = Small(WordAt(body, 0)) \div 4
    /\ \A i \in 1..Len(table.val) : table.val[i] = LeEntry(Drop(body, 4), i)

\* the chunk body declares a size that is a multiple of 4 and holds that
\* many bytes
TableAvailable(body) ==
    /\ Len(body) >= 4
    /\ WordAt(body, 0)[2] % 4 = 0
    /\ WLeq(WordAt(body, 0), N(Len(body) - 4))

\* C19: for a 'rate' or 'seq ' chunk with declared size s that is a multiple
\* of 4 and fully available, the decoder returns a table of exactly s/4
\* entries whose i-th entry is the little-endian value of payload bytes
\* 4i..4i+3, in file order, and consumes exactly 4 + s bytes; s = 0 yields a
\* present but empty table.
C19_Tables ==
    [][/\ (strict.pc = "rates" /\ strict' # strict /\ Len(strict.parser) >= 4
           /\ Take(strict.parser, 4) = RATE /\ TableAvailable(Drop(strict.parser, 4))) =>
              /\ strict'.pc = "sequence"
              /\ TableOf(strict'.rates, Drop(strict.parser, 4))
              /\ Len(strict'.parser)
                     = Len(strict.parser) - 4 - 4 - Small(WordAt(strict.parser, 1))
       /\ (strict.pc = "sequence" /\ strict' # strict /\ Len(strict.parser) >= 4
           /\ Take(strict.parser, 4) = SEQ /\ TableAvailable(Drop(strict.parser, 4))) =>
              /\ strict'.pc = "frames"
              /\ TableOf(strict'.sequence, Drop(strict.parser, 4))
              /\ Len(strict'.parser)
                     = Len(strict.parser) - 4 - 4 - Small(WordAt(strict.parser, 1))
       /\ (lenient.pc = "rates" /\ lenient' # lenient /\ Find(lenient.chunks, "Rate") # 0
           /\ TableAvailable(lenient.chunks[Find(lenient.chunks, "Rate")].data)) =>
              /\ lenient'.pc = "sequence"
              /\ TableOf(lenient'.rates, lenient.chunks[Find(lenient.chunks, "Rate")].data)
       /\ (lenient.pc = "sequence" /\ lenient' # lenient /\ Find(lenient.chunks, "Sequence") # 0
           /\ TableAvailable(lenient.chunks[Find(lenient.chunks, "Sequence")].data)) =>
              /\ lenient'.pc = "frames"
              /\ TableOf(lenient'.sequence, lenient.chunks[Find(lenient.chunks, "Sequence")].data)
      ]_vars

C19_Witness ==
    /\ gen.order = <<"A", "R", "S", "F">>
    /\ strict.pc = "done" /\ strict.result.type = "Ok"
    /\ lenient.pc = "done" /\ lenient.result.type = "Ok"
    /\ \/ /\ gen.mut = "tabletwo"
          /\ strict.result.val.rates = Some(<<N(258), <<258, 772>>>>)
          /\ lenient.result.val.sequence = Some(<<N(0), <<1, 1>>>>)
       \/ /\ gen.mut = "tableempty"
          /\ strict.result.val.rates = Some(<<>>)
          /\ lenient.result.val.sequence = Some(<<>>)

\* C20: open(path, mode) returns ReadFailure exactly when reading the file
\* fails; otherwise its result is exactly the result of decode(file bytes,
\* mode) with the pipeline selected by mode; decoding bytes never yields
\* ReadFailure.
C20_Open ==
    /\ file.pc = "done" =>
           /\ (file.result = Err(ReadFailure)) <=> ~file.readable
           /\ file.readable =>
                  /\ file.result = (IF file.strict THEN strict.result ELSE lenient.result)
                  /\ (IF file.strict THEN strict.pc ELSE lenient.pc) = "done"
                  /\ (IF file.strict THEN lenient.pc ELSE strict.pc) = "idle"
    /\ \A st \in {strict, lenient} :
           /\ st.pc \notin {"idle", "done"} => (file.readable /\ file.pc = "decode")
           /\ st.result.type = "Err" => st.result.err.kind # "ReadFailure"

C20_Witness ==
    /\ file.pc = "done"
    /\ \/ ~file.readable /\ file.result = Err(ReadFailure)
       \/ /\ file.readable /\ ~file.strict
          /\ lenient.pc = "done" /\ file.result = lenient.result
          /\ file.result.type = "Err" /\ file.result.err.kind = "UnknownIdentifier"

\* C21: in strict mode, once the first probe after the signature finds
\* 'LIST', the nested identifier must be 'INFO': any other nested identifier
\* (including 'fram') makes the decode fail with
\* UnexpectedIdentifier{expected 'INFO'}; the consumed 'LIST' and size field
\* are not rolled back and the chunk is not re-examined as the frames LIST.
C21_NestedInfo ==
    [][(strict.pc = "metadata" /\ strict' # strict /\ Len(strict.parser) >= 12
        /\ Take(strict.parser, 4) = LIST /\ SubSeq(strict.parser, 9, 12) # INFO) =>
           /\ strict'.pc = "done"
           /\ strict'.result = Err(UnexpectedIdentifier(INFO, SubSeq(strict.parser, 9, 12)))
           /\ strict'.parser = Drop(strict.parser, 8)
      ]_vars

C21_Witness ==
    /\ gen.order = <<"F", "A">> /\ gen.mut = "none" /\ IsWhole
    /\ strict.pc = "done"
    /\ strict.result = Err(UnexpectedIdentifier(INFO, FRAM))
    /\ Len(strict.parser) = Len(data) - 12 - 8
    /\ Take(strict.parser, 4) = FRAM

\* the aggregate of a buffer in grammar order, from the chunks it holds
AggregateOfLayout ==
    [AggregateOfKinds EXCEPT
        !.metadata = IF HasKind(gen.order, "M") \/ HasKind(gen.order, "m")
                     THEN Some(MetaValue) ELSE None]

\* C22: bytes that lie beyond the declared RIFF size are treated as trailing
\* padding/garbage: for a buffer that decodes successfully, appending extra
\* bytes after the declared RIFF size leaves the decode result unchanged, in
\* strict mode and in lenient mode.
C22_TrailingBytes ==
    (gen.order \in OrderedLayouts /\ gen.mut \in TrailMutations \cup {"none"}
     /\ gen.riff = "exact" /\ IsWhole) =>
        /\ (~HasKind(gen.order, "m") /\ strict.pc = "done") =>
               strict.result = Ok(AggregateOfLayout)
        /\ (~HasKind(gen.order, "M") /\ lenient.pc = "done") =>
               lenient.result = Ok(AggregateOfLayout)

\* the size field of the chunk at the head of the lenient parser and, for a
\* LIST chunk, its nested identifier
ListSize == WordAt(lenient.parser, 1)
ListNested == SubSeq(lenient.parser, 9, 12)

\* C23: in the lenient scan, a LIST chunk with declared size s is classified
\* by its nested identifier: 'info' gives a Metadata chunk and 'fram' a
\* Frames chunk, each buffering the s minus 4 bytes that follow the nested
\* identifier; every other nested identifier makes the decode fail with
\* UnknownIdentifier{actual = the nested identifier}.
C23_ListClassified ==
    [][(lenient.pc = "scan" /\ lenient' # lenient /\ Len(lenient.parser) >= 12
        /\ Take(lenient.parser, 4) = LIST) =>
           /\ ListNested \notin {INFO_LOWER, FRAM} =>
                  /\ lenient'.pc = "done"
                  /\ lenient'.result = Err(UnknownIdentifier(ListNested))
           /\ (ListNested \in {INFO_LOWER, FRAM} /\ WLeq(N(4), ListSize)
               /\ WLeq(WSub(ListSize, N(4)), N(Len(lenient.parser) - 12))) =>
                  /\ lenient'.pc \in {"scan", "metadata"}
                  /\ lenient'.chunks =
                         Append(lenient.chunks,
                                Chunk(IF ListNested = FRAM THEN "Frames" ELSE "Metadata",
                                      SubSeq(lenient.parser, 13, 8 + Small(ListSize))))
                  /\ lenient'.parser = Drop(lenient.parser, 8 + Small(ListSize))
      ]_vars

C23_Witness ==
    /\ gen.order = <<"m", "A", "F">> /\ gen.mut = "none" /\ gen.nframes = 1 /\ IsWhole
    /\ lenient.pc = "done" /\ lenient.result.type = "Ok"
    /\ lenient.chunks[1] = Chunk("Metadata", Concat(MetaBody))
    /\ lenient.chunks[3] = Chunk("Frames", Concat(FramBody(gen)))

\* C24: a metadata chunk laid out as in the wire format ('LIST', size,
\* 'INFO', optional INAM, optional IART) is recognised as the Metadata chunk
\* by both pipelines: the nested identifier that marks the metadata LIST is
\* the same byte sequence in strict and in lenient decoding.
C24_SameMetadataTag ==
    (gen.order \in GrammarOrders /\ HasKind(gen.order, "M") /\ gen.mut = "none"
     /\ gen.riff = "exact" /\ IsWhole) =>
        /\ strict.pc = "done" =>
               strict.result.type = "Ok" /\ strict.result.val.metadata = Some(MetaValue)
        /\ lenient.pc = "done" =>
               lenient.result.type = "Ok" /\ lenient.result.val.metadata = Some(MetaValue)

\* the chunk pushed by the scan step, if it pushed one
Pushed == lenient'.chunks[Len(lenient'.chunks)]
HasPushed == Len(lenient'.chunks) = Len(lenient.chunks) + 1

\* C25: the lenient scan's buffered lengths are computed without wrap-around
\* for every declared u32 size: an 'anih'/'rate'/'seq ' chunk with declared
\* size s buffers exactly 4 + s bytes beginning with its size field (the
\* size field is peeked, not consumed), and a LIST chunk with declared size
\* s buffers exactly s - 4 bytes; a LIST size below 4 or a chunk size above
\* 2^32 - 5 does not produce a wrapped length: whatever the declared size,
\* the step does not panic and buffers no chunk of another length.
C25_NoWrap ==
    [][/\ (lenient.pc = "scan" /\ lenient' # lenient /\ Len(lenient.parser) >= 8
           /\ Take(lenient.parser, 4) \in {ANIH, RATE, SEQ}) =>
              /\ lenient'.result.type # "Panic"
              /\ HasPushed => WAdd(N(4), ListSize) = N(Len(Pushed.data))
              /\ (WAdd(N(4), ListSize)[1] < HALF
                  /\ WLeq(WAdd(N(4), ListSize), N(Len(lenient.parser) - 4))) =>
                     /\ HasPushed
                     /\ Pushed.data = SubSeq(lenient.parser, 5, 8 + Small(ListSize))
       /\ (lenient.pc = "scan" /\ lenient' # lenient /\ Len(lenient.parser) >= 12
           /\ Take(lenient.parser, 4) = LIST /\ ListNested \in {INFO_LOWER, FRAM}) =>
              /\ lenient'.result.type # "Panic"
              /\ HasPushed => ListSize = N(Len(Pushed.data) + 4)
      ]_vars

\* C26: in the lenient scan, when exactly one byte remains at a chunk
\* boundary it is consumed without error whatever its value and the scan
\* stops: a buffer with one such trailing byte decodes to the same aggregate
\* as the buffer without it.
C26_LastByte ==
    /\ [][(lenient.pc = "scan" /\ lenient' # lenient /\ Len(lenient.parser) = 1) =>
             /\ lenient'.pc = "metadata"
             /\ lenient'.parser = <<>>
             /\ lenient'.chunks = lenient.chunks
             /\ lenient'.result = Pending
         ]_vars
    /\ []((gen.order \in OrderedLayouts /\ ~HasKind(gen.order, "M")
           /\ gen.mut \in {"none", "trail1", "trailff"} /\ gen.riff = "exact" /\ IsWhole
           /\ lenient.pc = "done") =>
              lenient.result = Ok(AggregateOfLayout))

C26_Witness ==
    /\ gen.mut = "trailff" /\ gen.nframes = 1
    /\ data[Len(data)] = 255
    /\ lenient.pc = "done"
    /\ lenient.result = Ok(AggregateOfLayout)
    /\ Len(lenient.chunks) = Len(gen.order)

\* the first chunk of the buffer that is of one of the given sorts, "" if none
RECURSIVE FirstOf(_, _)
FirstOf(order, sorts) ==
    IF order = <<>> THEN ""
    ELSE IF Head(order) \in sorts THEN Head(order)
    ELSE FirstOf(Tail(order), sorts)

\* the aggregate built from the first chunk of every kind
AggregateOfFirsts ==
    [metadata |-> CASE FirstOf(gen.order, {"m", "m2"}) = "m" -> Some(MetaValue)
                    [] FirstOf(gen.order, {"m", "m2"}) = "m2" ->
                           Some([MetaValue EXCEPT !.title = Some(FromUtf8Lossy(AltMetaChunk[6]))])
                    [] OTHER -> None,
     header   |-> Some(HeaderOf(IF FirstOf(gen.order, {"A", "A2"}) = "A"
                                THEN HeaderRecord(gen) ELSE AltHeaderRecord(gen))),
     rates    |-> CASE FirstOf(gen.order, {"R", "R2", "R3"}) = "R" -> Some(RateValue)
                    [] FirstOf(gen.order, {"R", "R2", "R3"}) = "R2" -> Some(<<N(772)>>)
                    [] OTHER -> None,
     sequence |-> CASE FirstOf(gen.order, {"S", "S2"}) = "S" -> Some(SeqValue)
                    [] FirstOf(gen.order, {"S", "S2"}) = "S2" -> Some(<<N(5)>>)
                    [] OTHER -> None,
     frames   |-> [i \in 1..gen.nframes |-> <<>>]]

\* C27: in lenient mode, when the buffer holds several chunks of the same
\* kind, the aggregate is built from the first one in physical order and
\* the later ones have no effect on the decoded value of that kind.
C27_FirstWins ==
    (gen.order \in DuplicateOrders /\ lenient.pc = "done") =>
        lenient.result =
            CASE FirstOf(gen.order, {"R", "R2", "R3"}) = "R3" -> Err(InvalidAlignmentU32)
              [] FirstOf(gen.order, {"F", "F2"}) = "F2" -> Err(NotEnoughBytes(N(4)))
              [] OTHER -> Ok(AggregateOfFirsts)

C27_Witness ==
    /\ gen.order = <<"A", "R2", "R", "F">>
    /\ Len(lenient.chunks) = 4
    /\ lenient.chunks[2].kind = "Rate" /\ lenient.chunks[3].kind = "Rate"
    /\ lenient.chunks[2].data # lenient.chunks[3].data
    /\ lenient.pc = "done" /\ lenient.result.type = "Ok"
    /\ lenient.result.val.rates = Some(<<N(772)>>)

\* what the decode phase of from_bytes returns for a buffer of FaultyOrders
\* whose scan completes: the error of the first kind, in the order Metadata,
\* Header, Rate, Sequence, Frames, that is missing or does not decode
DecodePhaseResult ==
    IF HasKind(gen.order, "mX") THEN Err(NotEnoughBytes(N(189)))
    ELSE IF ~HasKind(gen.order, "A") /\ ~HasKind(gen.order, "AX") THEN Err(MissingChunk(ANIH))
    ELSE IF HasKind(gen.order, "AX") THEN Err(InvalidHeaderSize(N(HEADER_SIZE + 4)))
    ELSE IF HasKind(gen.order, "R3") \/ HasKind(gen.order, "SX") THEN Err(InvalidAlignmentU32)
    ELSE IF ~HasKind(gen.order, "F") /\ ~HasKind(gen.order, "F2") THEN Err(MissingChunk(FRAM))
    ELSE IF HasKind(gen.order, "F2") THEN Err(NotEnoughBytes(N(4)))
    ELSE Ok(AggregateOfFirsts)

\* C28: in lenient mode no record decoder runs before the whole buffer has
\* been scanned: a scan error (UnknownIdentifier, NotEnoughBytes) anywhere
\* in the buffer is returned in preference to any record-decoder error or
\* MissingChunk, and after the scan the kinds are decoded in the fixed order
\* Metadata, Header, Rate, Sequence, Frames, so the first failing kind in
\* that order decides the error (a buffer lacking both 'anih' and fram
\* yields MissingChunk for 'anih').
C28_ScanThenDecode ==
    /\ lenient.pc \in {"metadata", "header", "rates", "sequence", "frames"} =>
           lenient.parser = <<>>
    /\ (lenient.pc = "done" /\ lenient.parser # <<>>) =>
           /\ lenient.metadata = None /\ lenient.header = None
           /\ lenient.rates = None /\ lenient.sequence = None
    /\ (gen.order \in FaultyOrders /\ gen.mut = "none" /\ gen.riff = "exact" /\ IsWhole
        /\ lenient.pc = "done") =>
           /\ HasKind(gen.order, "J") => lenient.result = Err(UnknownIdentifier(JUNK))
           /\ HasKind(gen.order, "S9") => lenient.result = Err(NotEnoughBytes(N(4)))
           /\ (~HasKind(gen.order, "J") /\ ~HasKind(gen.order, "S9")) =>
                  /\ lenient.result = DecodePhaseResult
                  /\ (lenient.result = Err(InvalidAlignmentU32) /\ ~HasKind(gen.order, "R3")) =>
                         lenient.rates = (IF HasKind(gen.order, "R") THEN Some(RateValue) ELSE None)
                  /\ (lenient.result = Err(InvalidAlignmentU32) /\ HasKind(gen.order, "R3")) =>
                         lenient.rates = None

C28_Witness ==
    /\ gen.order = <<"mX", "AX", "R3", "SX", "F2", "J">>
    /\ lenient.pc = "done"
    /\ lenient.result = Err(UnknownIdentifier(JUNK))
    /\ Len(lenient.chunks) = 5

\* what the claim of C29 says the Frames decoder returns for the frames LIST
\* of the buffer, called with the frame count the header declares
FramesVerdict ==
    CASE gen.mut \in {"iconjunk", "iconmix"} -> Err(UnexpectedIdentifier(ICON, JUNK))
      [] gen.mut = "framesmore" -> Err(NotEnoughBytes(N(4)))
      [] gen.mut = "iconshort" -> Err(NotEnoughBytes(N(4)))
      [] OTHER -> Ok([i \in 1..gen.nframes |-> IcoRead(ValidIcon).val])

\* a return of the Frames decoder in either call agrees with FramesVerdict
FramesReturn ==
    /\ (strict.pc = "frames" /\ strict'.pc = "done") =>
          IF FramesVerdict.type = "Ok"
          THEN strict'.result.type = "Ok" /\ strict'.result.val.frames = FramesVerdict.val
          ELSE strict'.result = FramesVerdict
    /\ (lenient.pc = "frames" /\ lenient'.pc = "done") =>
          IF FramesVerdict.type = "Ok"
          THEN lenient'.result.type = "Ok" /\ lenient'.result.val.frames = FramesVerdict.val
          ELSE lenient'.result = FramesVerdict

FramesCases == {"none", "iconjunk", "iconmix", "framesmore", "iconshort"}

\* C29: the Frames decoder called with expected count n reads n sub-chunks
\* in file order, each required to start with 'icon' followed by a size and
\* that many bytes: if the k-th sub-chunk (k <= n) starts with another
\* identifier it fails with UnexpectedIdentifier{expected 'icon'}, if the
\* bytes run out it fails with NotEnoughBytes, and on success frame k of
\* the result comes from sub-chunk k.
C29_FramesDecoder ==
    [][(gen.order = <<"A", "R", "F">> /\ IsWhole /\ gen.riff = "exact"
        /\ gen.mut \in FramesCases) => FramesReturn]_vars

(***************************************************************************)
(* Build::run: one worker thread per configured cursor.  Every worker      *)
(* calls process_cursor, which reads the file of its cursor and decodes    *)
(* the bytes with the mode of the build command; the steps of the decode   *)
(* calls of different workers interleave in any order.                     *)
(***************************************************************************)
\* JIFFY.round() as u32, for JIFFY = 1000.0 / 60.0
JIFFY_ROUNDED == 17

\* a * k in u32 for a factor k below 2^15: panics with overflow checks and
\* wraps without them
MulU32(a, k, checks) ==
    IF a[1] * k + ((a[2] * k) \div HALF) < HALF
    THEN Ok(<<a[1] * k + ((a[2] * k) \div HALF), (a[2] * k) % HALF>>)
    ELSE IF checks THEN Panic("attempt to multiply with overflow")
    ELSE Ok(<<(a[1] * k + ((a[2] * k) \div HALF)) % HALF, (a[2] * k) % HALF>>)

\* the loop `for i in sequence` from entry k on: each entry indexes
\* ani.frames(), frame_names and rates, and writes one line; the fields
\* read inside the frame do not depend on the entry and are left out
RECURSIVE ConfigLines(_, _, _, _, _, _, _)
ConfigLines(sequence, k, frames, frame_names, rates, checks, contents) ==
    IF k > Len(sequence) THEN Ok(contents)
    ELSE IF ~WLess(sequence[k], N(Len(frames))) THEN Panic("index out of bounds")
    ELSE IF ~WLess(sequence[k], N(Len(frame_names))) THEN Panic("index out of bounds")
    ELSE IF ~WLess(sequence[k], N(Len(rates))) THEN Panic("index out of bounds")
    ELSE IF MulU32(rates[Small(sequence[k]) + 1], JIFFY_ROUNDED, checks).type # "Ok"
         THEN MulU32(rates[Small(sequence[k]) + 1], JIFFY_ROUNDED, checks)
    ELSE ConfigLines(sequence, k + 1, frames, frame_names, rates, checks,
                     Append(contents,
                            [file_name |-> frame_names[Small(sequence[k]) + 1],
                             duration |-> MulU32(rates[Small(sequence[k]) + 1],
                                                 JIFFY_ROUNDED, checks).val]))

\* build_xcursor_config(ani, frame_names, output) up to the write of the
\* file: the sequence of the file or (0..steps).map(|i| i % frames), the
\* rates of the file or jif_rate for every frame, then the loop
build_xcursor_config(ani, frame_names, checks) ==
    IF ~ani.sequence.some /\ ani.header.val.steps # N(0) /\ ani.header.val.frames = N(0)
    THEN Panic("attempt to calculate the remainder with a divisor of zero")
    ELSE ConfigLines(
            IF ani.sequence.some THEN ani.sequence.val
            ELSE [i \in 1..Small(ani.header.val.steps) |->
                     IF ani.header.val.frames[1] > 0 THEN N(i - 1)
                     ELSE N((i - 1) % Small(ani.header.val.frames))],
            1, ani.frames, frame_names,
            IF ani.rates.some THEN ani.rates.val
            ELSE [i \in 1..Len(ani.frames) |-> ani.header.val.jif_rate],
            checks, <<>>)

\* extract_frames: one name per frame of the aggregate
FrameNames(ani) == [i \in 1..Len(ani.frames) |-> i - 1]

\* what the file system and the external programs do to a worker: nothing,
\* a failure before the configuration is built (directories, frame
\* images), or one after it (writing the file, xcursorgen, links)
Environments == {"ok", "before", "after"}

\* process_cursor after Ani::open has returned decoded: the worker's
\* outcome is Ok, an error, or the panic that ends its thread
process_cursor(decoded, env, checks) ==
    IF decoded.type = "Panic" THEN decoded
    ELSE IF decoded.type = "Err" THEN Err("failed to decode ANI file")
    ELSE IF env = "before" THEN Err("failed to create frame output directory")
    ELSE IF build_xcursor_config(decoded.val, FrameNames(decoded.val), checks).type = "Panic"
         THEN build_xcursor_config(decoded.val, FrameNames(decoded.val), checks)
    ELSE IF env = "after" THEN Err("failed to create Xcursor")
    ELSE Ok(<<>>)

\* the files of the configured cursors: valid ones, ones whose decoding
\* fails, ones on which the decoder panics, and ones that decode to a
\* header of no frames or to tables of no entry or of two
WorkerInputs ==
    {Whole(o, n, "exact", m) : o \in {<<"A", "R", "F">>, <<"M", "A", "R", "S", "F">>},
                               n \in 1..MaxFrames,
                               m \in {"none", "badicon", "ratehuge", "iconjunk",
                                      "frameszero", "tableempty", "tabletwo"}}

\* thread::spawn(move || process_cursor(&cursor, &build, strict)): the
\* worker owns the bytes it read and the decode call it makes on them
Spawn(bytes, st, checks) ==
    [bytes |-> bytes, strict |-> st, checks |-> checks,
     call |-> IF st THEN StrictStart(bytes) ELSE LenientStart(bytes),
     outcome |-> Pending]

InitWorkers ==
    /\ \E st \in BOOLEAN, checks \in BOOLEAN :
          handles \in {<<Spawn(Bytes(g1), st, checks), Spawn(Bytes(g2), st, checks)>> :
                          g1 \in WorkerInputs, g2 \in WorkerInputs}
    /\ gen = Gen(<<>>, 0, "exact", "none", 0)
    /\ data = <<>>
    /\ strict = NotCalled(StrictStart(<<>>))
    /\ lenient = NotCalled(LenientStart(<<>>))
    /\ cur = <<>>
    /\ op = NoOp
    /\ file = NoFile
    /\ run = NoRun

\* a step of worker t continuing from the position the parser of the
\* other worker has reached
Work_SharedParser(hs, t, env) ==
    IF hs[t].call.pc = "done"
    THEN [hs EXCEPT ![t].outcome = process_cursor(hs[t].call.result, env, hs[t].checks)]
    ELSE [hs EXCEPT ![t].call =
            IF hs[t].strict
            THEN StrictAdvance([hs[t].call EXCEPT !.parser = hs[Len(hs) + 1 - t].call.parser])
            ELSE LenientAdvance([hs[t].call EXCEPT !.parser = hs[Len(hs) + 1 - t].call.parser],
                                hs[t].checks)]

\* a step of worker t: the next step of its own decode call, and once
\* the call has returned the rest of process_cursor
Work(hs, t, env) ==
    IF hs[t].call.pc = "done"
    THEN [hs EXCEPT ![t].outcome = process_cursor(hs[t].call.result, env, hs[t].checks)]
    ELSE [hs EXCEPT ![t].call = IF hs[t].strict THEN StrictAdvance(hs[t].call)
                                ELSE LenientAdvance(hs[t].call, hs[t].checks)]

WorkerStep ==
    /\ \E t \in DOMAIN handles, env \in Environments :
          /\ handles[t].outcome = Pending
          /\ handles' = Work(handles, t, env)
    /\ UNCHANGED <<data, gen, strict, lenient, cur, op, file, run>>

NextWorkers == WorkerStep

SpecWorkers == InitWorkers /\ [][NextWorkers]_vars

\* what the decode call of handle h returns when it runs alone
RECURSIVE Alone(_)
Alone(h) ==
    IF h.call.pc = "done" THEN h.call.result ELSE Alone(Work(<<h>>, 1, "ok")[1])

Taken(o) ==
    CASE o.name \in {"read_bytes", "read"} -> Len(o.res.val)
      [] o.name = "read_size" -> U32_SIZE
      [] o.name = "expect_identifier" -> IDENTIFIER_SIZE
      [] OTHER -> 0

\* C31: across any sequence of Byte Cursor operations (read_bytes,
\* peek_bytes, read, expect_identifier, read_size, peek_size),
\* bytes_remaining never increases; it decreases by exactly the number of
\* bytes returned on a successful consuming operation and is unchanged by
\* every peek and by every failed operation.
C31_BytesRemaining ==
    [][/\ op'.before = cur
       /\ WLeq(Remaining(cur'), Remaining(cur))
       /\ IF op'.res.type = "Ok" /\ op'.name \notin {"peek_bytes", "peek_size"}
          THEN Len(cur') = Len(cur) - Taken(op')
          ELSE cur' = cur
      ]_vars

\* a read_size that succeeded on the last four bytes and left none
C31_Witness ==
    /\ op.name = "read_size"
    /\ op.res.type = "Ok"
    /\ Len(op.before) = 4
    /\ Remaining(cur) = N(0)

(***************************************************************************)
(* Ani::from_bytes on its own, its thread never starved: while the         *)
(* signature check or an iteration of the scan loop can change the state   *)
(* of the call, one is eventually executed.                                *)
(***************************************************************************)
\* buffers for the scan: corrupted ones (among them a 'rate' chunk whose
\* size makes 4 + size wrap, and a LIST with an unknown nested
\* identifier), ones with trailing bytes, and every prefix of a buffer
\* that holds every kind of chunk
ScanInputs ==
    Corrupted
        \cup {Whole(<<"m", "A", "R", "S", "F">>, 1, "exact", m) :
                 m \in {"trail1", "trailff", "trail2", "trailjunk", "pad"}}
        \cup {Gen(<<"m", "A", "R", "S", "F">>, 1, "exact", "none", c) :
                 c \in 0..Len(Full(Gen(<<"m", "A", "R", "S", "F">>, 1, "exact", "none", 0)))}

InitScan ==
    /\ gen \in ScanInputs
    /\ data = Bytes(gen)
    /\ strict = NotCalled(StrictStart(data))
    /\ lenient = LenientStart(data)
    /\ cur = <<>>
    /\ op = NoOp
    /\ file = NoFile
    /\ handles = <<>>
    /\ run = NoRun

NextScan ==
    \/ LenientSignature
    \/ LenientScan
    \/ LenientMetadata
    \/ LenientHeader
    \/ LenientRates
    \/ LenientSequence
    \/ LenientFrames

SpecScan == InitScan /\ [][NextScan]_vars /\ WF_vars(LenientSignature \/ LenientScan)

\* an iteration of the scan ends the call without an aggregate, or leaves
\* fewer bytes in the parser and at most one chunk more
ScanProgress ==
    [][(lenient.pc = "scan" /\ lenient' # lenient) =>
          \/ lenient'.pc = "done" /\ lenient'.result.type # "Ok"
          \/ /\ lenient'.pc \in {"scan", "metadata"}
             /\ Len(lenient'.parser) < Len(lenient.parser)
             /\ Len(lenient'.chunks) <= Len(lenient.chunks) + 1
      ]_vars

\* C32: the lenient scan loop terminates on every input: each iteration
\* either returns an error or consumes at least one byte of the buffer, so
\* the number of iterations is bounded by the buffer length.
C32_ScanTerminates ==
    /\ ScanProgress
    /\ [](Len(lenient.chunks) + Len(lenient.parser) <= Len(data))
    /\ <>(lenient.pc \notin {"signature", "scan"})

\* the scan has ended after three iterations that each pushed a chunk
C32_Witness ==
    /\ lenient.pc = "metadata"
    /\ Len(lenient.chunks) = 3
    /\ lenient.parser = <<>>

\* C33: in strict mode the declared size of a LIST chunk bounds what its
\* sub-decoder reads: the Metadata decoder and the Frames decoder never
\* consume bytes beyond the end of the LIST chunk as given by its size
\* field (the chunk ends 8 + size bytes after the start of its identifier).
C33_ListBound ==
    [][(/\ strict.pc \in {"metadata", "frames"}
        /\ strict' # strict
        /\ Len(strict.parser) >= 8
        /\ Take(strict.parser, 4) = LIST
        /\ WordAt(strict.parser, 1)[1] = 0) =>
            Len(strict.parser) - Len(strict'.parser) <= 8 + Small(WordAt(strict.parser, 1))
      ]_vars

\* C34: for every successfully decoded file, building the Xcursor
\* configuration never reads out of range: every sequence value used as
\* an index (from the sequence table, or from the default sequence
\* i mod frame_count for i < step_count when no table exists) is below the
\* number of frames, below the number of frame names and below the length
\* of the rate table, and the default sequence is never computed with
\* frame_count = 0.
C34_ConfigInRange ==
    \A t \in DOMAIN handles :
        (handles[t].call.result.type = "Ok" /\ handles[t].outcome.type = "Panic") =>
            handles[t].outcome.msg
                \notin {"index out of bounds",
                        "attempt to calculate the remainder with a divisor of zero"}

(***************************************************************************)
(* Build::run once the package, the configuration and the build directory  *)
(* are set up: it spawns one worker per configured cursor, joins the       *)
(* handles in order counting the failures, and returns.                    *)
(***************************************************************************)
\* the most cursors a configuration holds
MaxCursors == 2

\* the files of the cursors of a configuration: one that builds, one whose
\* decoding fails, one on which the decoder panics, one whose
\* configuration cannot be built
BuildInputs ==
    {Whole(<<"A", "R", "F">>, 1, "exact", m) : m \in {"none", "iconjunk", "badicon", "tableempty"}}

InitBuild ==
    /\ \E st \in BOOLEAN, checks \in BOOLEAN :
          run \in {[pc |-> "spawn", cursors |-> c, strict |-> st, checks |-> checks,
                    joined |-> 0, error_count |-> 0, result |-> Pending] :
                       c \in UNION {[1..n -> {Bytes(g) : g \in BuildInputs}] : n \in 0..MaxCursors}}
    /\ handles = <<>>
    /\ gen = Gen(<<>>, 0, "exact", "none", 0)
    /\ data = <<>>
    /\ strict = NotCalled(StrictStart(<<>>))
    /\ lenient = NotCalled(LenientStart(<<>>))
    /\ cur = <<>>
    /\ op = NoOp
    /\ file = NoFile

\* config.cursors().into_iter().map(|cursor| thread::spawn(..)).collect()
SpawnAll ==
    /\ run.pc = "spawn"
    /\ handles' = [t \in 1..Len(run.cursors) |-> Spawn(run.cursors[t], run.strict, run.checks)]
    /\ run' = [run EXCEPT !.pc = "join"]
    /\ UNCHANGED <<data, gen, strict, lenient, cur, op, file>>

\* a worker of the running build takes a step
BuildWorkerStep ==
    /\ run.pc = "join"
    /\ \E t \in DOMAIN handles, env \in Environments :
          /\ handles[t].outcome = Pending
          /\ handles' = Work(handles, t, env)
    /\ UNCHANGED <<data, gen, strict, lenient, cur, op, file, run>>

\* a loop that returns at the first worker that failed
join_StopAtFailure(r, outcome) ==
    IF outcome.type = "Ok" THEN [r EXCEPT !.joined = @ + 1]
    ELSE [r EXCEPT !.pc = "done", !.joined = @ + 1, !.error_count = @ + 1,
                   !.result = Err([kind |-> "cursors", count |-> r.error_count + 1])]

\* one iteration of `for (name, handle) in handles` after handle.join()
\* has returned the worker's outcome: Ok(Ok(())) counts nothing,
\* Ok(Err(err)) and Err(panic) count one failure each
join(r, outcome) ==
    IF outcome.type = "Ok" THEN [r EXCEPT !.joined = @ + 1]
    ELSE [r EXCEPT !.joined = @ + 1, !.error_count = @ + 1]

\* handle.join() blocks until the worker's thread has ended
Join ==
    /\ run.pc = "join"
    /\ run.joined < Len(handles)
    /\ handles[run.joined + 1].outcome # Pending
    /\ run' = join(run, handles[run.joined + 1].outcome)
    /\ UNCHANGED <<data, gen, strict, lenient, cur, op, file, handles>>

\* after the loop: Err(anyhow!("failed to create ({error_count}) cursors")),
\* or writeln!(stderr, ..)? and Ok(())
Finish ==
    /\ run.pc = "join"
    /\ run.joined = Len(handles)
    /\ \E written \in BOOLEAN :
          run' = [run EXCEPT !.pc = "done",
                             !.result = IF run.error_count > 0
                                        THEN Err([kind |-> "cursors", count |-> run.error_count])
                                        ELSE IF written THEN Ok(<<>>)
                                        ELSE Err([kind |-> "stderr", count |-> 0])]
    /\ UNCHANGED <<data, gen, strict, lenient, cur, op, file, handles>>

NextBuild ==
    \/ SpawnAll
    \/ BuildWorkerStep
    \/ Join
    \/ Finish

SpecBuild == InitBuild /\ [][NextBuild]_vars

\* the workers that returned an error or panicked
Failed == {t \in DOMAIN handles : handles[t].outcome.type \in {"Err", "Panic"}}

\* every configured cursor has a worker, and once the call has returned
\* every worker has ended and been joined and the count is the number of
\* failed workers
JoinsAll ==
    /\ run.pc \in {"join", "done"} => Len(handles) = Len(run.cursors)
    /\ run.pc = "done" =>
          /\ \A t \in DOMAIN handles : handles[t].outcome # Pending
          /\ run.joined = Len(handles)
          /\ run.error_count = Cardinality(Failed)
          /\ run.result.type = "Err" /\ run.result.err.kind = "cursors"
                => run.result.err.count = Cardinality(Failed)

====
